---- MODULE Spec2Model ----
(***************************************************************************)
(* Model of the argsh bash minifier (src/minifier): the Bundle phase as a  *)
(* call-stack state machine over a small file system, the line phases      *)
(* Strip, Flatten and Join as functions over texts, and the CLI run that   *)
(* composes them.                                                          *)
(*                                                                         *)
(* A text is a sequence of one-character strings; a line is a text without *)
(* the newline character.  Positions are 1-based.                          *)
(***************************************************************************)
EXTENDS Integers, Sequences, FiniteSets, TLC

(***************************************************************************)
(* Characters                                                              *)
(***************************************************************************)
NL == "\n"
TAB == "\t"
SQ == "'"
DQ == "\""
BS == "\\"

Lower == {"a","b","c","d","e","f","g","h","i","j","k","l","m",
          "n","o","p","q","r","s","t","u","v","w","x","y","z"}
Upper == {"A","B","C","D","E","F","G","H","I","J","K","L","M",
          "N","O","P","Q","R","S","T","U","V","W","X","Y","Z"}
Digit == {"0","1","2","3","4","5","6","7","8","9"}

\* \w of the regex crate, restricted to ASCII
WordCh == Lower \cup Upper \cup Digit \cup {"_"}
\* \s of the regex crate and char::is_whitespace, restricted to the
\* characters a text of the model can hold
SpaceCh == {" ", TAB, NL}
\* [ \t]
Blank == {" ", TAB}

(***************************************************************************)
(* Texts                                                                   *)
(***************************************************************************)
RECURSIVE Flat(_)
\* concatenation of a sequence of texts
Flat(ss) == IF ss = <<>> THEN <<>> ELSE Head(ss) \o Flat(Tail(ss))

RECURSIVE JoinWith(_, _)
\* [String]::join(sep)
JoinWith(ls, sep) ==
  IF ls = <<>> THEN <<>>
  ELSE IF Len(ls) = 1 THEN ls[1]
  ELSE ls[1] \o sep \o JoinWith(Tail(ls), sep)

JoinNL(ls) == JoinWith(ls, <<NL>>)

\* position of the first newline of t at or after i, Len(t)+1 when none
NextNL(t, i) ==
  LET ends == {j \in i..(Len(t) + 1) : j = Len(t) + 1 \/ t[j] = NL}
  IN  CHOOSE j \in ends : \A k \in ends : j <= k

\* str::lines(): split at newlines; a final newline ends the last line and
\* starts no empty one
RECURSIVE LinesFrom(_, _)
LinesFrom(t, i) ==
  IF i > Len(t) THEN <<>>
  ELSE LET e == NextNL(t, i)
       IN  <<SubSeq(t, i, e - 1)>> \o LinesFrom(t, e + 1)

Lines(t) == LinesFrom(t, 1)

\* the content of a file written one line per entry, each newline-terminated
FileText(ls) == Flat([i \in 1..Len(ls) |-> ls[i] \o <<NL>>])

\* str::trim_start()
TrimStart(s) ==
  LET keep == {j \in 1..(Len(s) + 1) : j = Len(s) + 1 \/ s[j] \notin SpaceCh}
      first == CHOOSE j \in keep : \A k \in keep : j <= k
  IN  SubSeq(s, first, Len(s))

\* str::trim_end()
TrimEnd(s) ==
  LET keep == {j \in 0..Len(s) : j = 0 \/ s[j] \notin SpaceCh}
      last == CHOOSE j \in keep : \A k \in keep : j >= k
  IN  SubSeq(s, 1, last)

\* str::trim()
Trim(s) == TrimEnd(TrimStart(s))

\* str::contains(char)
ContainsCh(s, c) == \E i \in 1..Len(s) : s[i] = c

\* str::contains(&str)
ContainsStr(s, p) ==
  \E i \in 1..(Len(s) - Len(p) + 1) : SubSeq(s, i, i + Len(p) - 1) = p

\* str::starts_with(&str)
StartsWith(s, p) == Len(s) >= Len(p) /\ SubSeq(s, 1, Len(p)) = p

\* number of entries of the sequence ls equal to x
RECURSIVE CountOf(_, _)
CountOf(ls, x) ==
  IF ls = <<>> THEN 0
  ELSE (IF Head(ls) = x THEN 1 ELSE 0) + CountOf(Tail(ls), x)

\* least and greatest element of a non-empty set of integers
MinOf(S) == CHOOSE x \in S : \A y \in S : x <= y
MaxOf(S) == CHOOSE x \in S : \A y \in S : x >= y

\* A loop over the characters lo..hi of chars: Step(st, chars, i) is the
\* loop body at character i, st the loop's variables.  The range is halved
\* so that long lines nest no deeper than short ones.
RECURSIVE FoldChars(_, _, _, _, _)
FoldChars(Step(_, _, _), chars, lo, hi, st) ==
  IF lo > hi THEN st
  ELSE IF lo = hi THEN Step(st, chars, lo)
  ELSE LET mid == (lo + hi) \div 2
           RightHalf(left) ==
             IF left = st THEN FoldChars(Step, chars, mid + 1, hi, st)
             ELSE FoldChars(Step, chars, mid + 1, hi, left)
       IN  RightHalf(FoldChars(Step, chars, lo, mid, st))

(***************************************************************************)
(* Regular expressions (regex crate): a pattern is a sequence of nodes,    *)
(* matched with leftmost-first (backtracking-order) semantics.             *)
(***************************************************************************)
\* the largest number of capture groups of a pattern
NGroups == 2

Node(t, cs, a, b, k, p) == [t |-> t, cs |-> cs, a |-> a, b |-> b, k |-> k, p |-> p]

\* [...] : one character of the set
Ch(S) == Node("ch", S, <<>>, <<>>, 0, 0)
\* [^...] : one character outside the set
NotCh(S) == Node("nch", S, <<>>, <<>>, 0, 0)
\* . : any character but newline
AnyCh == NotCh({NL})
\* a|b, a tried first
Alt(a, b) == Node("alt", {}, a, b, 0, 0)
\* a? (greedy)
Opt(a) == Alt(a, <<>>)
\* a* (greedy)
Star(a) == Node("star", {}, a, <<>>, 0, 0)
\* a+ (greedy)
Plus(a) == a \o <<Star(a)>>
\* (a) as capture group k
Grp(k, a) == Node("grp", {}, a, <<>>, k, 0)
\* ^ , $ (end of text) and \b
Bol == Node("bol", {}, <<>>, <<>>, 0, 0)
Eol == Node("eol", {}, <<>>, <<>>, 0, 0)
WordB == Node("wb", {}, <<>>, <<>>, 0, 0)
\* a literal string
Lit(s) == <<Node("lit", {}, s, <<>>, 0, 0)>>

NoCaps == [g \in 1..NGroups |-> <<0, 0>>]
NoMatch == [ok |-> FALSE, start |-> 0, end |-> 0, caps |-> NoCaps]

IsWordAt(s, i) == i >= 1 /\ i <= Len(s) /\ s[i] \in WordCh

\* the character c is one the class node n takes
Accepts(n, c) == IF n.t = "ch" THEN c \in n.cs ELSE c \notin n.cs

\* a repetition of one character class, which is matched as a run
IsClassRun(n) == Len(n.a) = 1 /\ n.a[1].t \in {"ch", "nch"}

\* the position after the longest run from i of characters the class takes
RunEnd(n, s, i) ==
  MinOf({j \in i..(Len(s) + 1) : j = Len(s) + 1 \/ ~Accepts(n, s[j])})

\* Match the node sequence ns against s from position i; the first match in
\* backtracking order, as [ok, start, end, caps] with end the position after
\* the match and caps[g] = <<first, last+1>> of group g.
RECURSIVE MatchAt(_, _, _, _)
MatchAt(ns, s, i, caps) ==
  IF ns = <<>> THEN [ok |-> TRUE, start |-> 0, end |-> i, caps |-> caps]
  ELSE
    LET n == Head(ns)
        rest == Tail(ns)
    IN CASE n.t \in {"ch", "nch"} ->
              IF i <= Len(s) /\ Accepts(n, s[i])
              THEN MatchAt(rest, s, i + 1, caps) ELSE NoMatch
         [] n.t = "lit" ->
              IF i + Len(n.a) - 1 <= Len(s) /\ SubSeq(s, i, i + Len(n.a) - 1) = n.a
              THEN MatchAt(rest, s, i + Len(n.a), caps) ELSE NoMatch
         [] n.t = "alt" ->
              LET r == MatchAt(n.a \o rest, s, i, caps)
              IN  IF r.ok THEN r ELSE MatchAt(n.b \o rest, s, i, caps)
         [] n.t = "star" /\ IsClassRun(n) ->
              \* the longest run first, then shorter ones
              LET stop == RunEnd(n.a[1], s, i)
                  r == MatchAt(rest, s, stop, caps)
                  shorter == {j \in i..(stop - 1) : MatchAt(rest, s, j, caps).ok}
              IN  IF r.ok THEN r
                  ELSE IF shorter = {} THEN NoMatch
                  ELSE MatchAt(rest, s, MaxOf(shorter), caps)
         [] n.t = "star" /\ ~IsClassRun(n) ->
              LET r == MatchAt(n.a \o <<Node("starchk", {}, n.a, <<>>, 0, i)>> \o rest,
                               s, i, caps)
              IN  IF r.ok THEN r ELSE MatchAt(rest, s, i, caps)
         [] n.t = "starchk" ->
              IF i = n.p THEN NoMatch
              ELSE MatchAt(<<Star(n.a)>> \o rest, s, i, caps)
         [] n.t = "grp" ->
              MatchAt(n.a \o <<Node("capend", {}, <<>>, <<>>, n.k, i)>> \o rest,
                      s, i, caps)
         [] n.t = "capend" ->
              MatchAt(rest, s, i, [caps EXCEPT ![n.k] = <<n.p, i>>])
         [] n.t = "bol" ->
              IF i = 1 THEN MatchAt(rest, s, i, caps) ELSE NoMatch
         [] n.t = "eol" ->
              IF i = Len(s) + 1 THEN MatchAt(rest, s, i, caps) ELSE NoMatch
         [] n.t = "wb" ->
              IF IsWordAt(s, i - 1) # IsWordAt(s, i)
              THEN MatchAt(rest, s, i, caps) ELSE NoMatch

\* Regex::find / Regex::captures from position `from`: the leftmost match
SearchFrom(re, s, from) ==
  LET Leftmost(ms) ==
        IF ms = {} THEN NoMatch
        ELSE CHOOSE m \in ms : \A o \in ms : m.start <= o.start
  IN  Leftmost({m \in {[MatchAt(re, s, p, NoCaps) EXCEPT !.start = p] :
                         p \in from..(Len(s) + 1)} : m.ok})

Search(re, s) == SearchFrom(re, s, 1)

\* Regex::is_match
IsMatch(re, s) == Search(re, s).ok

\* the text of capture group g of a match m in s
Cap(m, s, g) == SubSeq(s, m.caps[g][1], m.caps[g][2] - 1)

\* a replacement template is a sequence of parts: the text of a part, or
\* the capture group g > 0 it stands for ($1 is [g |-> 1])
TText(s) == [g |-> 0, s |-> s]
TGroup(g) == [g |-> g, s |-> <<>>]

RECURSIVE Expand(_, _, _)
Expand(tpl, m, s) ==
  IF tpl = <<>> THEN <<>>
  ELSE (IF Head(tpl).g = 0 THEN Head(tpl).s ELSE Cap(m, s, Head(tpl).g))
       \o Expand(Tail(tpl), m, s)

\* Regex::replace: the leftmost match replaced, the rest kept
ReplaceFirst(re, s, tpl) ==
  LET Replaced(m) ==
        IF ~m.ok THEN s
        ELSE SubSeq(s, 1, m.start - 1) \o Expand(tpl, m, s)
             \o SubSeq(s, m.end, Len(s))
  IN  Replaced(Search(re, s))

\* Regex::replace_all: every non-overlapping match, left to right
RECURSIVE ReplaceAllFrom(_, _, _, _)
ReplaceAllFrom(re, s, tpl, from) ==
  LET Replaced(m) ==
        IF ~m.ok THEN SubSeq(s, from, Len(s))
        ELSE IF m.end = m.start
        THEN SubSeq(s, from, m.start - 1) \o Expand(tpl, m, s)
             \o (IF m.start <= Len(s)
                 THEN <<s[m.start]>> \o ReplaceAllFrom(re, s, tpl, m.start + 1)
                 ELSE <<>>)
        ELSE SubSeq(s, from, m.start - 1) \o Expand(tpl, m, s)
             \o ReplaceAllFrom(re, s, tpl, m.end)
  IN  Replaced(SearchFrom(re, s, from))

ReplaceAll(re, s, tpl) == ReplaceAllFrom(re, s, tpl, 1)

(***************************************************************************)
(* Patterns with nested repetitions are matched the way the regex crate    *)
(* does it: the pattern is compiled to a program, and the program's        *)
(* threads are advanced in priority order over the text, each instruction  *)
(* visited at most once per position.  The match is the leftmost-first     *)
(* one, as with MatchAt.                                                   *)
(***************************************************************************)
\* a*? and a+? (lazy)
LazyStar(a) == Node("lstar", {}, a, <<>>, 0, 0)
LazyPlus(a) == a \o <<LazyStar(a)>>

\* an instruction: "ch"/"nch" take one character of/outside cs, "split"
\* goes on at x and, with lower priority, at y, "jmp" goes on at x, "open"
\* and "close" record the bounds of capture group k, "bol", "eol" and "wb"
\* are the assertions, "match" ends the program
Ins(op, cs, x, y) == [op |-> op, cs |-> cs, x |-> x, y |-> y]

RECURSIVE Compile(_, _)
\* the instructions of one node, the first of them at address base
CompileNode(n, base) ==
  LET Branch(A) ==
        LET Other(B) ==
              <<Ins("split", {}, base + 1, base + Len(A) + 2)>> \o A
              \o <<Ins("jmp", {}, base + Len(A) + Len(B) + 2, 0)>> \o B
        IN  Other(Compile(n.b, base + Len(A) + 2))
      Loop(A) ==
        <<IF n.t = "star"
          THEN Ins("split", {}, base + 1, base + Len(A) + 2)
          ELSE Ins("split", {}, base + Len(A) + 2, base + 1)>>
        \o A \o <<Ins("jmp", {}, base, 0)>>
  IN  CASE n.t \in {"ch", "nch"} -> <<Ins(n.t, n.cs, 0, 0)>>
        [] n.t = "lit" -> [i \in 1..Len(n.a) |-> Ins("ch", {n.a[i]}, 0, 0)]
        [] n.t = "alt" -> Branch(Compile(n.a, base + 1))
        [] n.t \in {"star", "lstar"} -> Loop(Compile(n.a, base + 1))
        [] n.t = "grp" ->
             <<Ins("open", {}, n.k, 0)>> \o Compile(n.a, base + 1)
             \o <<Ins("close", {}, n.k, 0)>>
        [] n.t \in {"bol", "eol", "wb"} -> <<Ins(n.t, {}, 0, 0)>>

\* the instructions of a node sequence, the first of them at address base
Compile(ns, base) ==
  IF ns = <<>> THEN <<>>
  ELSE LET Then(head) == head \o Compile(Tail(ns), base + Len(head))
       IN  Then(CompileNode(Head(ns), base))

\* the program of a pattern
Program(re) == Compile(re, 1) \o <<Ins("match", {}, 0, 0)>>

\* Add to the thread list L the threads the instruction at pc leads to at
\* position pos without taking a character, in priority order; cx holds the
\* program and the text, start the position the match began at.
RECURSIVE AddThread(_, _, _, _, _, _)
AddThread(L, cx, pc, pos, start, caps) ==
  IF pc \in L.seen THEN L
  ELSE
    LET ins == cx.prog[pc]
        L1 == [L EXCEPT !.seen = @ \cup {pc}]
    IN CASE ins.op = "jmp" -> AddThread(L1, cx, ins.x, pos, start, caps)
         [] ins.op = "split" ->
              AddThread(AddThread(L1, cx, ins.x, pos, start, caps),
                        cx, ins.y, pos, start, caps)
         [] ins.op = "open" ->
              AddThread(L1, cx, pc + 1, pos, start,
                        [caps EXCEPT ![ins.x] = <<pos, @[2]>>])
         [] ins.op = "close" ->
              AddThread(L1, cx, pc + 1, pos, start,
                        [caps EXCEPT ![ins.x] = <<@[1], pos>>])
         [] ins.op = "bol" ->
              IF pos = 1 THEN AddThread(L1, cx, pc + 1, pos, start, caps) ELSE L1
         [] ins.op = "eol" ->
              IF pos = Len(cx.s) + 1
              THEN AddThread(L1, cx, pc + 1, pos, start, caps) ELSE L1
         [] ins.op = "wb" ->
              IF IsWordAt(cx.s, pos - 1) # IsWordAt(cx.s, pos)
              THEN AddThread(L1, cx, pc + 1, pos, start, caps) ELSE L1
         [] OTHER ->
              [L1 EXCEPT !.threads =
                 Append(@, [pc |-> pc, start |-> start, caps |-> caps])]

NoThreads == [threads |-> <<>>, seen |-> {}]

\* one thread of the list at a position: a thread at "match" ends the
\* search among the threads after it, a thread at a character instruction
\* goes on to the next position when the character is one it takes
ThreadStep(acc, threads, j) ==
  LET t == threads[j]
      ins == acc.cx.prog[t.pc]
  IN  IF acc.cut THEN acc
      ELSE IF ins.op = "match"
      THEN [acc EXCEPT !.cut = TRUE,
                       !.m = [ok |-> TRUE, start |-> t.start, end |-> acc.pos,
                              caps |-> t.caps]]
      ELSE IF /\ acc.pos <= Len(acc.cx.s)
              /\ (acc.cx.s[acc.pos] \in ins.cs) = (ins.op = "ch")
      THEN [acc EXCEPT !.next = AddThread(@, acc.cx, t.pc + 1, acc.pos + 1,
                                          t.start, t.caps)]
      ELSE acc

\* the threads at position i: until a match is found a new thread starts
\* at every position, with the lowest priority
PosStep(st, chars, i) ==
  LET Run(cl) ==
        LET Done(acc) == [st EXCEPT !.cl = acc.next, !.m = acc.m]
        IN  Done(FoldChars(ThreadStep, cl.threads, 1, Len(cl.threads),
                           [cx |-> st.cx, pos |-> i, next |-> NoThreads,
                            m |-> st.m, cut |-> FALSE]))
  IN  IF st.m.ok /\ st.cl.threads = <<>> THEN st
      ELSE Run(IF st.m.ok THEN st.cl
               ELSE AddThread(st.cl, st.cx, 1, i, i, NoCaps))

\* Regex::find / Regex::captures from position `from`
VmSearchFrom(re, s, from) ==
  FoldChars(PosStep, s, from, Len(s) + 1,
            [cx |-> [prog |-> Program(re), s |-> s], cl |-> NoThreads,
             m |-> NoMatch]).m

VmSearch(re, s) == VmSearchFrom(re, s, 1)

\* Regex::is_match with the program-based matcher
VmIsMatch(re, s) == VmSearch(re, s).ok

\* Regex::replace_all with the program-based matcher
RECURSIVE VmReplaceAllFrom(_, _, _, _)
VmReplaceAllFrom(re, s, tpl, from) ==
  LET ReplacedAll(m) ==
        IF ~m.ok THEN SubSeq(s, from, Len(s))
        ELSE IF m.end = m.start
        THEN SubSeq(s, from, m.start - 1) \o Expand(tpl, m, s)
             \o (IF m.start <= Len(s)
                 THEN <<s[m.start]>> \o VmReplaceAllFrom(re, s, tpl, m.start + 1)
                 ELSE <<>>)
        ELSE SubSeq(s, from, m.start - 1) \o Expand(tpl, m, s)
             \o VmReplaceAllFrom(re, s, tpl, m.end)
  IN  ReplacedAll(VmSearchFrom(re, s, from))

VmReplaceAll(re, s, tpl) == VmReplaceAllFrom(re, s, tpl, 1)

\* Regex::replace with the program-based matcher
VmReplace(re, s, tpl) ==
  LET Replaced(m) ==
        IF ~m.ok THEN s
        ELSE SubSeq(s, 1, m.start - 1) \o Expand(tpl, m, s)
             \o SubSeq(s, m.end, Len(s))
  IN  Replaced(VmSearch(re, s))

\* Option<String>
None == [some |-> FALSE, val |-> <<>>]
Some(v) == [some |-> TRUE, val |-> v]

(***************************************************************************)
(* quote.rs                                                                *)
(***************************************************************************)
\* the number of consecutive backslashes that end right before position i
BackslashesBefore(chars, i) ==
  (i - 1) - MaxOf({j \in 0..(i - 1) : j = 0 \/ chars[j] # BS})

\* a variant that looks at the one character before position i only
IsEscaped_PrevOnly(chars, i, in_single) ==
  IF ~in_single THEN i > 1 /\ chars[i - 1] = BS ELSE FALSE

\* is_escaped of the scan loop
IsEscaped(chars, i, in_single) ==
  IF ~in_single THEN BackslashesBefore(chars, i) % 2 = 1 ELSE FALSE

\* the loop variables of a scan that tracks quotes
QuoteState(in_single, in_double) ==
  [in_single |-> in_single, in_double |-> in_double]

\* the body of the loop of line_has_open_quote at character i
QuoteStep(st, chars, i) ==
  LET is_escaped == IsEscaped(chars, i, st.in_single)
      ch == chars[i]
  IN  IF ch = SQ /\ ~st.in_double /\ (st.in_single \/ ~is_escaped)
      THEN [st EXCEPT !.in_single = ~st.in_single]
      ELSE IF ch = DQ /\ ~st.in_single /\ ~is_escaped
      THEN [st EXCEPT !.in_double = ~st.in_double]
      ELSE st

\* QuoteTracker::line_has_open_quote: <<single_open, double_open>>
line_has_open_quote(line) ==
  LET st == FoldChars(QuoteStep, line, 1, Len(line), QuoteState(FALSE, FALSE))
  IN  <<st.in_single, st.in_double>>

(***************************************************************************)
(* strip.rs                                                                *)
(***************************************************************************)
strip_RE_COMMENT == <<Bol, Star(<<Ch(Blank)>>), Ch({"#"}), Star(<<AnyCh>>)>>
strip_RE_BLANK == <<Bol, Star(<<Ch(Blank)>>), Eol>>
RE_IMPORT_CALL ==
  <<Bol, Star(<<Ch(Blank)>>)>> \o Lit(<<"i","m","p","o","r","t">>)
  \o Plus(<<Ch(SpaceCh)>>) \o Plus(<<Ch(WordCh)>>) \o <<Star(<<Ch(SpaceCh)>>), Eol>>
RE_IMPORT_DEF ==
  <<Bol, Star(<<Ch(Blank)>>)>> \o Lit(<<"i","m","p","o","r","t","(",")">>)
  \o <<Star(<<Ch(SpaceCh)>>), Ch({"{"})>> \o Plus(<<AnyCh>>)
  \o <<Ch({"}"}), Star(<<Ch(SpaceCh)>>), Eol>>
RE_SET_PIPEFAIL ==
  <<Bol, Star(<<Ch(Blank)>>)>> \o Lit(<<"s","e","t"," ","-","e","u","o"," ","p","i","p","e","f","a","i","l">>)
RE_MIDLINE_SHEBANG == <<Grp(1, <<AnyCh>>)>> \o Lit(<<"#","!","/">>)
\* $1\n#!/
MIDLINE_SHEBANG_REPL == <<TGroup(1), TText(<<"\n","#","!","/">>)>>
strip_RE_HEREDOC ==
  <<Ch({"<"}), Ch({"<"}), Opt(<<Ch({"-"})>>), Star(<<Ch(SpaceCh)>>),
    Opt(<<Ch({SQ, DQ})>>), Grp(1, Plus(<<Ch(WordCh)>>)), Opt(<<Ch({SQ, DQ})>>)>>

should_strip(line) ==
  \/ IsMatch(strip_RE_COMMENT, line)
  \/ IsMatch(strip_RE_BLANK, line)
  \/ IsMatch(RE_IMPORT_CALL, line)
  \/ IsMatch(RE_IMPORT_DEF, line)
  \/ IsMatch(RE_SET_PIPEFAIL, line)

\* The body of the loop of heredoc_outside_quotes at character i (the same
\* loop in strip.rs and join.rs, each with its own RE_HEREDOC): found is
\* the delimiter returned, and once it is set the loop has returned.
HeredocStep(re, st, chars, i) ==
  IF st.found.some THEN st
  ELSE IF chars[i] = SQ /\ ~st.in_double
  THEN [st EXCEPT !.in_single = ~st.in_single]
  ELSE IF chars[i] = DQ /\ ~st.in_single
  THEN [st EXCEPT !.in_double = ~st.in_double]
  ELSE IF chars[i] = "<" /\ ~st.in_single /\ ~st.in_double /\ chars[i + 1] = "<"
  THEN LET rest == SubSeq(chars, i, Len(chars))
           Found(cap) ==
             IF cap.ok THEN [st EXCEPT !.found = Some(Cap(cap, rest, 1))] ELSE st
       IN  Found(Search(re, rest))
  ELSE st

HeredocInit == [in_single |-> FALSE, in_double |-> FALSE, found |-> None]

strip_HeredocStep(st, chars, i) == HeredocStep(strip_RE_HEREDOC, st, chars, i)

\* heredoc_outside_quotes of strip.rs: the last character starts no match
strip_heredoc_outside_quotes(line) ==
  FoldChars(strip_HeredocStep, line, 1, Len(line) - 1, HeredocInit).found

\* the heredoc a line of Strip's loop opens: looked for before the line is
\* tested for removal
StripHeredocStart(line) == strip_heredoc_outside_quotes(line)

\* the text Strip's loop runs over: mid-line shebangs split off in the
\* whole input
StripNormalize(input) ==
  ReplaceAll(RE_MIDLINE_SHEBANG, input, MIDLINE_SHEBANG_REPL)

\* the loop of strip_lines from line i on
RECURSIVE StripLoop(_, _, _, _)
StripLoop(ls, i, heredoc_delim, result) ==
  IF i > Len(ls) THEN result
  ELSE LET line == ls[i]
       IN  IF heredoc_delim.some
           THEN StripLoop(ls, i + 1,
                          IF Trim(line) = heredoc_delim.val THEN None
                          ELSE heredoc_delim,
                          Append(result, line))
           ELSE LET Opened(h) == IF h.some THEN h ELSE heredoc_delim
                IN  StripLoop(ls, i + 1,
                              Opened(StripHeredocStart(line)),
                              IF ~should_strip(line) THEN Append(result, line)
                              ELSE result)

strip_lines(input) == StripLoop(Lines(StripNormalize(input)), 1, None, <<>>)

(***************************************************************************)
(* flatten.rs                                                              *)
(***************************************************************************)
RE_LEADING_WS == <<Bol>> \o Plus(<<Ch(Blank)>>)
RE_TRAILING_SEMI == <<Grp(1, <<NotCh({";"})>>), Ch({";"}), Eol>>
flatten_RE_HEREDOC ==
  <<Ch({"<"}), Ch({"<"}), Opt(<<Ch({"-"})>>), Star(<<Ch(SpaceCh)>>),
    Opt(<<Ch({SQ, DQ})>>), Grp(1, Plus(<<Ch(WordCh)>>)), Opt(<<Ch({SQ, DQ})>>)>>

\* the body of the loop of strip_eol_comment at character i: cut is the
\* position of the `#` the loop returned at, 0 while it has not
EolCommentStep(st, chars, i) ==
  LET ch == chars[i]
      prevIsBs == i > 1 /\ chars[i - 1] = BS
  IN  IF st.cut # 0 THEN st
      ELSE IF ch = SQ /\ ~st.in_double /\ (st.in_single \/ ~prevIsBs)
      THEN [st EXCEPT !.in_single = ~st.in_single]
      ELSE IF ch = DQ /\ ~st.in_single /\ ~prevIsBs
      THEN [st EXCEPT !.in_double = ~st.in_double]
      ELSE IF /\ ch = "#" /\ ~st.in_single /\ ~st.in_double
              /\ i > 1 /\ chars[i - 1] \in SpaceCh
              /\ i + 1 <= Len(chars) /\ chars[i + 1] \in SpaceCh
      THEN [st EXCEPT !.cut = i]
      ELSE st

strip_eol_comment(line) ==
  LET st == FoldChars(EolCommentStep, line, 1, Len(line),
                      [in_single |-> FALSE, in_double |-> FALSE, cut |-> 0])
  IN  IF st.cut # 0 THEN TrimEnd(SubSeq(line, 1, st.cut - 1)) \o <<" ">>
      ELSE line

flatten_line(line) ==
  strip_eol_comment(
    ReplaceFirst(RE_TRAILING_SEMI,
                 ReplaceFirst(RE_LEADING_WS, line, <<>>),
                 <<TGroup(1)>>))

RECURSIVE FlattenLoop(_, _, _, _)
FlattenLoop(ls, i, heredoc_delim, result) ==
  IF i > Len(ls) THEN result
  ELSE LET line == ls[i]
       IN  IF heredoc_delim.some
           THEN FlattenLoop(ls, i + 1,
                            IF Trim(line) = heredoc_delim.val THEN None
                            ELSE heredoc_delim,
                            Append(result, line))
           ELSE LET Opened(cap) == IF cap.ok THEN Some(Cap(cap, line, 1))
                                   ELSE heredoc_delim
                IN  FlattenLoop(ls, i + 1,
                                Opened(Search(flatten_RE_HEREDOC, line)),
                                Append(result, flatten_line(line)))

flatten_lines(ls) == FlattenLoop(ls, 1, None, <<>>)

(***************************************************************************)
(* join.rs                                                                 *)
(***************************************************************************)
\* (?:\s|\t)* : the alternation takes one character, of \s or a tab
WsStar == Star(<<Ch(SpaceCh \cup {TAB})>>)
\* (then|do|else) as capture group 1
KeywordGrp == Grp(1, <<Alt(Lit(<<"t","h","e","n">>), <<Alt(Lit(<<"d","o">>), Lit(<<"e","l","s","e">>))>>)>>)

join_RE_HEREDOC ==
  <<Ch({"<"}), Ch({"<"}), Opt(<<Ch({"-"})>>), Star(<<Ch(SpaceCh)>>),
    Opt(<<Ch({SQ, DQ})>>), Grp(1, Plus(<<Ch(WordCh)>>)), Opt(<<Ch({SQ, DQ})>>),
    Star(<<Ch(SpaceCh)>>)>>
RE_CASE_START == <<Bol, Star(<<Ch(SpaceCh)>>)>> \o Lit(<<"c","a","s","e">>) \o <<WordB>>
RE_ESAC ==
  Lit(<<"e","s","a","c">>)
  \o <<Grp(1, <<Alt(<<Ch(SpaceCh)>>,
                    <<Alt(<<Ch({TAB})>>, <<Alt(<<Ch({";"})>>, <<Eol>>)>>)>>)>>)>>
RE_CASE_PATTERN ==
  <<Bol, Grp(1, Plus(<<NotCh({"(", ")"})>>) \o <<Ch({")"})>>), WsStar,
    Grp(2, <<Star(<<AnyCh>>)>>)>>
RE_DOUBLE_SEMI ==
  <<WsStar, Ch({";"}), Ch({";"}),
    Star(<<Ch(SpaceCh \cup {TAB, NL})>>), Eol>>
RE_ARRAY_OPEN == <<Ch({"="}), Ch({"("}), Star(<<NotCh({")"})>>), Eol>>
RE_ARRAY_CLOSE == <<Ch({")"}), WsStar, Eol>>
join_RE_BLANK == <<Bol, WsStar, Eol>>
RE_BACKSLASH_CONT == <<Ch({BS}), Eol>>
RE_TRAILING_OPERATOR ==
  <<Grp(1, <<Alt(<<Ch({"|", "&", "{", "("}), Opt(<<Ch({"|", "&", "{", "("})>>)>>,
                 <<Ch({";"})>>)>>),
    Star(<<Ch(SpaceCh)>>), Eol>>
RE_LEADING_CLOSE == <<Bol, WsStar, Ch({")"})>>
RE_THEN_DO_ELSE == <<WsStar, KeywordGrp, Star(<<Ch(SpaceCh)>>), Eol>>
RE_TRAILING_WS_NL == <<WsStar, Eol>>
RE_KEYWORD_SEMI == <<WordB, KeywordGrp, Ch({";"})>>

join_HeredocStep(st, chars, i) == HeredocStep(join_RE_HEREDOC, st, chars, i)

\* heredoc_outside_quotes of join.rs
join_heredoc_outside_quotes(line) ==
  FoldChars(join_HeredocStep, line, 1, Len(line) - 1, HeredocInit).found

\* $1 followed by a space
KEYWORD_SEMI_REPL == <<TGroup(1), TText(<<" ">>)>>

fix_keyword_semicolons(input) ==
  ReplaceAll(RE_KEYWORD_SEMI, input, KEYWORD_SEMI_REPL)

\* q $'\n' q, the concatenation that stands for a line break inside a string
QuoteBreak(q) == <<q, "$", SQ, BS, "n", SQ, q>>

\* join_terminate
join_terminate(output) == Append(output, ";")

\* RE_TRAILING_WS_NL.replace(line, "")
NoTrailingWs(line) == ReplaceFirst(RE_TRAILING_WS_NL, line, <<>>)

\* The inner loops of join_newlines, which take lines from the shared
\* iterator: each returns [i |-> the next line not taken, out |-> the output].
RECURSIVE JoinHeredocBody(_, _, _, _)
JoinHeredocBody(ls, i, delim, out) ==
  IF i > Len(ls) THEN [i |-> i, out |-> out]
  ELSE LET inner == ls[i]
           o == out \o inner \o <<NL>>
       IN  IF Trim(inner) = delim THEN [i |-> i + 1, out |-> o]
           ELSE JoinHeredocBody(ls, i + 1, delim, o)

RECURSIVE JoinArrayBody(_, _, _)
JoinArrayBody(ls, i, out) ==
  IF i > Len(ls) THEN [i |-> i, out |-> out]
  ELSE LET inner == ls[i]
           o == out \o <<" ">> \o Trim(inner)
       IN  IF IsMatch(RE_ARRAY_CLOSE, inner) THEN [i |-> i + 1, out |-> o]
           ELSE JoinArrayBody(ls, i + 1, o)

RECURSIVE JoinQuoteBody(_, _, _, _)
JoinQuoteBody(ls, i, quote_char, out) ==
  IF i > Len(ls) THEN [i |-> i, out |-> out]
  ELSE LET inner == ls[i]
           o == out \o inner
       IN  IF ContainsCh(inner, quote_char) THEN [i |-> i + 1, out |-> o]
           ELSE JoinQuoteBody(ls, i + 1, quote_char, o \o QuoteBreak(quote_char))

\* the body lines of a case pattern up to the one that contains `;;`
RECURSIVE CaseBodyLines(_, _, _)
CaseBodyLines(ls, i, body) ==
  IF i > Len(ls) THEN [i |-> i, out |-> body]
  ELSE LET trimmed == Trim(ls[i])
           b == body \o <<NL>> \o trimmed
       IN  IF ContainsStr(trimmed, <<";", ";">>) THEN [i |-> i + 1, out |-> b]
           ELSE CaseBodyLines(ls, i + 1, b)

\* while joined_body.ends_with(';') { joined_body.pop(); }
StripTrailingSemis(s) ==
  SubSeq(s, 1, MaxOf({j \in 0..Len(s) : j = 0 \/ s[j] # ";"}))

RECURSIVE JoinLoop(_, _, _)
RECURSIVE CaseLoop(_, _, _)

\* join_newlines
join_newlines(input) == fix_keyword_semicolons(JoinLoop(Lines(input), 1, <<>>))

\* the `while let` loop of process_case
CaseLoop(ls, i, out) ==
  IF i > Len(ls) THEN [i |-> i, out |-> out]
  ELSE LET line == Trim(ls[i])
       IN  IF line = <<>> THEN CaseLoop(ls, i + 1, out)
           ELSE IF IsMatch(RE_ESAC, line)
           THEN [i |-> i + 1, out |-> out \o NoTrailingWs(line) \o <<";">>]
           ELSE LET \* the body lines collected up to the one with `;;`
                    Collect(body0) ==
                      IF ~ContainsStr(body0, <<";", ";">>)
                      THEN CaseBodyLines(ls, i + 1, body0)
                      ELSE [i |-> i + 1, out |-> body0]
                    Emit(pattern_part, col) ==
                      CaseLoop(ls, col.i,
                               out \o pattern_part
                               \o StripTrailingSemis(join_newlines(
                                    ReplaceFirst(RE_DOUBLE_SEMI, col.out, <<>>)))
                               \o <<";", ";", NL>>)
                    Pattern(cap) ==
                      IF cap.ok
                      THEN Emit(Cap(cap, line, 1), Collect(Cap(cap, line, 2)))
                      ELSE CaseLoop(ls, i + 1, out)
                IN  Pattern(Search(RE_CASE_PATTERN, line))

\* process_case
process_case(first_line, ls, i, out) ==
  CaseLoop(ls, i, out \o NoTrailingWs(first_line) \o <<NL>>)

\* the `while let` loop of join_newlines from line i on
JoinLoop(ls, i, output) ==
  IF i > Len(ls) THEN output
  ELSE
    LET line == TrimStart(ls[i])
        \* the loop goes on after an inner loop that took lines
        After(r) == JoinLoop(ls, r.i, r.out)
        AfterTerminated(r) == JoinLoop(ls, r.i, join_terminate(r.out))
        InHeredoc(h) ==
          After(JoinHeredocBody(ls, i + 1, h.val,
                                output \o NoTrailingWs(line) \o <<NL>>))
        InKeyword(kw) ==
          JoinLoop(ls, i + 1,
                   output \o ReplaceFirst(RE_THEN_DO_ELSE, line, <<>>)
                   \o Cap(kw, line, 1) \o <<" ">>)
        InQuote(quote_char) ==
          AfterTerminated(JoinQuoteBody(ls, i + 1, quote_char,
                                        output \o line \o QuoteBreak(quote_char)))
        Last(oq) ==
          IF oq[1] \/ oq[2] THEN InQuote(IF oq[1] THEN SQ ELSE DQ)
          ELSE JoinLoop(ls, i + 1, join_terminate(output \o NoTrailingWs(line)))
    IN  IF join_heredoc_outside_quotes(line).some
        THEN InHeredoc(join_heredoc_outside_quotes(line))
        ELSE IF IsMatch(RE_CASE_START, line)
        THEN After(process_case(line, ls, i + 1, output))
        ELSE IF IsMatch(RE_ARRAY_OPEN, line)
        THEN AfterTerminated(JoinArrayBody(ls, i + 1, output \o NoTrailingWs(line)))
        ELSE IF IsMatch(join_RE_BLANK, line)
        THEN JoinLoop(ls, i + 1, output)
        ELSE IF IsMatch(RE_BACKSLASH_CONT, line)
        THEN JoinLoop(ls, i + 1, output \o SubSeq(line, 1, Len(line) - 1))
        ELSE IF IsMatch(RE_TRAILING_OPERATOR, line)
        THEN JoinLoop(ls, i + 1, output \o NoTrailingWs(line) \o <<" ">>)
        ELSE IF IsMatch(RE_LEADING_CLOSE, line)
        THEN JoinLoop(ls, i + 1, join_terminate(output \o NoTrailingWs(line)))
        ELSE IF IsMatch(RE_THEN_DO_ELSE, line)
        THEN InKeyword(Search(RE_THEN_DO_ELSE, line))
        ELSE Last(line_has_open_quote(line))

(***************************************************************************)
(* State                                                                   *)
(***************************************************************************)
VARIABLES
  env,      \* what the run is started with: the file system (files, a map
            \* from <<directory, file name>> to content; unreadable, the
            \* files whose read fails), the command line (input_path,
            \* search_paths, do_bundle, do_obfuscate, ignore_vars,
            \* exclude_vars) and out_writable
  pc,       \* where the CLI run is: "idle", "start", "minify", "bundle",
            \* "strip", "flatten", "patterns", "discover", "obfuscate",
            \* "join", "write", "done", "failed"
  err,      \* the error the run ended with, "" when none
  input,    \* main: the text read from the input file
  source,   \* minify: the source after phase 1
  lines,    \* minify: the lines passed from phase to phase
  result,   \* minify: the text join_newlines returned
  outfile,  \* the output file: None until written
  stack,    \* bundle: the active bundle_recursive calls, innermost last
  seen,     \* bundle: the visited set of canonical paths
  reads,    \* bundle: the imports read with read_to_string, in order, each
            \* with the brace_depth and force_next it was read under
  deepest,  \* bundle: the largest depth bundle_recursive was called with
  qline,    \* the line given to QuoteTracker
  qres,     \* what line_has_open_quote returned for qline, None before
  cfg,      \* minify with -O: var_prefix and the compiled ignore patterns
  scan,     \* discover_variables: i, the line of source.lines() the loop
            \* is at, vars, the names inserted so far, and skip_next
  sorted_vars, \* what discover_variables returned
  rename_map,  \* what build_rename_map returned
  ob,       \* obfuscate_lines: the line, the variable and the rule reached,
            \* iter, the iterations done of the loop of a looped rule, s,
            \* the text of the line with its sentinel, and out, the lines
            \* rewritten so far
  tick      \* flips at every step of a CLI run

clivars == <<env, pc, err, input, source, lines, result, outfile>>
bvars == <<stack, seen, reads, deepest>>
qvars == <<qline, qres>>
ovars == <<cfg, scan, sorted_vars, rename_map, ob>>
vars == <<env, pc, err, input, source, lines, result, outfile,
          stack, seen, reads, deepest, qline, qres, tick,
          cfg, scan, sorted_vars, rename_map, ob>>

(***************************************************************************)
(* bundle.rs                                                               *)
(***************************************************************************)
MAX_DEPTH == 64

\* [^\s;#]
TargetCh == NotCh(SpaceCh \cup {";", "#"})
\* [^"'\s;#]
QTargetCh == NotCh(SpaceCh \cup {";", "#", SQ, DQ})

RE_IMPORT ==
  <<Bol, Star(<<Ch(Blank)>>)>> \o Lit(<<"i","m","p","o","r","t">>) \o Plus(<<Ch(SpaceCh)>>)
  \o <<Grp(1, Plus(<<TargetCh>>)), Star(<<Ch(SpaceCh)>>), Eol>>
RE_SOURCE ==
  <<Bol, Star(<<Ch(Blank)>>)>> \o Lit(<<"s","o","u","r","c","e">>) \o Plus(<<Ch(SpaceCh)>>)
  \o <<Opt(<<Ch({SQ, DQ})>>), Grp(1, Plus(<<QTargetCh>>)), Opt(<<Ch({SQ, DQ})>>)>>
RE_DOT ==
  <<Bol, Star(<<Ch(Blank)>>), Ch({"."})>> \o Plus(<<Ch(SpaceCh)>>)
  \o <<Opt(<<Ch({SQ, DQ})>>), Grp(1, Plus(<<QTargetCh>>)), Opt(<<Ch({SQ, DQ})>>)>>

FORCE_ANNOTATION == <<"#"," ","m","i","n","i","f","i","e","r"," ","f","o","r","c","e"," ","s","o","u","r","c","e">>
EXTENSIONS == <<<<>>, <<".","s","h">>, <<".","b","a","s","h">>>>

\* the target the first matching directive pattern captures, before the
\* test for `$`
DirectiveTarget(line) ==
  LET First(mi, ms, md) ==
        IF mi.ok THEN Some(Cap(mi, line, 1))
        ELSE IF ms.ok THEN Some(Cap(ms, line, 1))
        ELSE IF md.ok THEN Some(Cap(md, line, 1))
        ELSE None
  IN  First(Search(RE_IMPORT, line), Search(RE_SOURCE, line),
            Search(RE_DOT, line))

extract_target(line) ==
  LET Checked(tg) == IF tg.some /\ ContainsCh(tg.val, "$") THEN None ELSE tg
  IN  Checked(DirectiveTarget(line))

strip_import_prefix(target) ==
  IF target # <<>> /\ Head(target) \in {"@", "~"} THEN Tail(target) ELSE target

\* the directory above a directory of the model
ParentDir(dir) == IF dir \in {"d0", "d1"} THEN "top" ELSE "/"

\* Path::canonicalize on dir.join(name): leading `./` components dropped,
\* a leading `../` resolved to the directory above, an absolute name taken
\* from the root
RECURSIVE canonicalize(_)
canonicalize(path) ==
  LET dir == path[1]
      name == path[2]
  IN  IF StartsWith(name, <<".", "/">>)
      THEN canonicalize(<<dir, SubSeq(name, 3, Len(name))>>)
      ELSE IF StartsWith(name, <<".", ".", "/">>)
      THEN canonicalize(<<ParentDir(dir), SubSeq(name, 4, Len(name))>>)
      ELSE IF StartsWith(name, <<"/">>)
      THEN canonicalize(<<"/", Tail(name)>>)
      ELSE path

\* Path::is_file
is_file(path) == canonicalize(path) \in DOMAIN env.files

\* the candidates of resolve_path in probing order: for each directory the
\* bare name, then `.sh`, then `.bash`
Candidates(stripped, current_dir) ==
  LET dirs == <<current_dir>> \o env.search_paths
  IN  [k \in 1..(3 * Len(dirs)) |->
         <<dirs[((k - 1) \div 3) + 1], stripped \o EXTENSIONS[((k - 1) % 3) + 1]>>]

RECURSIVE FirstFile(_, _)
FirstFile(cands, k) ==
  IF k > Len(cands) THEN None
  ELSE IF is_file(cands[k]) THEN Some(cands[k])
  ELSE FirstFile(cands, k + 1)

\* a variant without the rejection of `..` and absolute targets
resolve_path_NoReject(target, current_dir) ==
  FirstFile(Candidates(strip_import_prefix(target), current_dir), 1)

resolve_path(target, current_dir) ==
  LET stripped == strip_import_prefix(target)
  IN  IF ContainsStr(stripped, <<".", ".">>) \/ StartsWith(stripped, <<"/">>)
      THEN None
      ELSE FirstFile(Candidates(stripped, current_dir), 1)

\* the body of the loop of brace_depth_delta at character i
BraceStep(st, chars, i) ==
  LET ch == chars[i]
      prev == IF i > 1 THEN chars[i - 1] ELSE ""
      is_escaped == IF ~st.in_single THEN BackslashesBefore(chars, i) % 2 = 1
                    ELSE FALSE
  IN  IF ch = SQ /\ ~st.in_double /\ (st.in_single \/ ~is_escaped)
      THEN [st EXCEPT !.in_single = ~st.in_single]
      ELSE IF ch = DQ /\ ~st.in_single /\ ~is_escaped
      THEN [st EXCEPT !.in_double = ~st.in_double]
      ELSE IF ch = "{" /\ ~st.in_single
      THEN IF prev = "$"
           THEN [st EXCEPT !.param_depth = st.param_depth + 1]
           ELSE IF st.param_depth = 0 /\ ~st.in_double
           THEN [st EXCEPT !.delta = st.delta + 1]
           ELSE st
      ELSE IF ch = "}" /\ ~st.in_single
      THEN IF st.param_depth > 0
           THEN [st EXCEPT !.param_depth = st.param_depth - 1]
           ELSE IF ~st.in_double
           THEN [st EXCEPT !.delta = st.delta - 1]
           ELSE st
      ELSE st

brace_depth_delta(line) ==
  FoldChars(BraceStep, line, 1, Len(line),
            [delta |-> 0, param_depth |-> 0,
             in_single |-> FALSE, in_double |-> FALSE]).delta

\* the test at the entry of bundle_recursive, passed at the limit itself
DepthExceeded_AtLimit(depth) == depth >= MAX_DEPTH

\* the test at the entry of bundle_recursive
DepthExceeded(depth) == depth > MAX_DEPTH

\* should_dedup without the test of the brace depth
ShouldDedup_AnyDepth(brace_depth, force_next, canonical) ==
  ~force_next /\ canonical \in seen

\* should_dedup
ShouldDedup(brace_depth, force_next, canonical) ==
  LET is_top_level == brace_depth = 0
  IN  is_top_level /\ ~force_next /\ canonical \in seen

\* the locals of one bundle_recursive call; idx is the line the `for` loop
\* is at, open_quote_char is "" for None
Frame(content, dir, depth) ==
  [lines |-> Lines(content), idx |-> 1, output |-> <<>>, brace_depth |-> 0,
   force_next |-> FALSE, open_quote_char |-> "", current_dir |-> dir,
   depth |-> depth]

Top == stack[Len(stack)]
CurLine == Top.lines[Top.idx]
SetTop(f) == [stack EXCEPT ![Len(stack)] = f]

\* the innermost call is in its loop, at a line
Scanning ==
  /\ pc = "bundle"
  /\ stack # <<>>
  /\ ~DepthExceeded(Top.depth)
  /\ Top.idx <= Len(Top.lines)

\* the file the current line resolves to, None when it is no directive or
\* resolves to nothing
Resolved ==
  LET Path(tg) ==
        IF tg.some THEN resolve_path(tg.val, Top.current_dir) ELSE None
  IN  Path(extract_target(CurLine))

IsAnnotation(line) == Trim(line) = FORCE_ANNOTATION

\* the loop is at a line it takes as a resolvable directive
AtDirective ==
  /\ Scanning
  /\ Top.open_quote_char = ""
  /\ ~IsAnnotation(CurLine)
  /\ Resolved.some

Max(a, b) == IF a >= b THEN a ELSE b

\* bundle_recursive, a line inside a multi-line quoted string
ScanQuoted ==
  /\ Scanning
  /\ Top.open_quote_char # ""
  /\ stack' = SetTop([Top EXCEPT
                        !.output = Append(@, CurLine),
                        !.open_quote_char =
                            IF ContainsCh(CurLine, @) THEN "" ELSE @,
                        !.idx = @ + 1])
  /\ UNCHANGED <<clivars, seen, reads, deepest, qvars, ovars>>
  /\ tick' = ~tick

\* the annotation line emitted like any other line
AnnotationOutput_Emitted(output, line) == Append(output, line)

\* what the annotation line adds to the output: nothing
AnnotationOutput(output, line) == output

\* bundle_recursive, the annotation line
ScanAnnotation ==
  /\ Scanning
  /\ Top.open_quote_char = ""
  /\ IsAnnotation(CurLine)
  /\ stack' = SetTop([Top EXCEPT !.force_next = TRUE,
                                 !.output = AnnotationOutput(@, CurLine),
                                 !.idx = @ + 1])
  /\ UNCHANGED <<clivars, seen, reads, deepest, qvars, ovars>>
  /\ tick' = ~tick

\* bundle_recursive, a directive that is deduplicated
ScanSkip ==
  /\ AtDirective
  /\ \E canonical \in {canonicalize(Resolved.val)} :
       ShouldDedup(Top.brace_depth, Top.force_next, canonical)
  /\ stack' = SetTop([Top EXCEPT !.force_next = FALSE, !.idx = @ + 1])
  /\ UNCHANGED <<clivars, seen, reads, deepest, qvars, ovars>>
  /\ tick' = ~tick

\* bundle_recursive, a directive that is inlined: the call of
\* bundle_recursive on the content read
ScanInline ==
  /\ AtDirective
  /\ \E canonical \in {canonicalize(Resolved.val)} :
         /\ ~ShouldDedup(Top.brace_depth, Top.force_next, canonical)
         /\ canonical \notin env.unreadable
         /\ seen' = seen \cup {canonical}
         /\ reads' = Append(reads, [file |-> canonical,
                                     brace_depth |-> Top.brace_depth,
                                     force_next |-> Top.force_next])
         /\ stack' = Append(stack, Frame(env.files[canonical], canonical[1],
                                         Top.depth + 1))
         /\ deepest' = Max(deepest, Top.depth + 1)
  /\ UNCHANGED <<clivars, qvars, ovars>>
  /\ tick' = ~tick

\* bundle_recursive, a directive whose file cannot be read: the error ends
\* every call
ScanReadFail ==
  /\ AtDirective
  /\ \E canonical \in {canonicalize(Resolved.val)} :
         /\ ~ShouldDedup(Top.brace_depth, Top.force_next, canonical)
         /\ canonical \in env.unreadable
         /\ seen' = seen \cup {canonical}
  /\ stack' = <<>>
  /\ pc' = "failed"
  /\ err' = "read import"
  /\ UNCHANGED <<env, input, source, lines, result, outfile, reads, deepest,
                 qvars, ovars>>
  /\ tick' = ~tick

\* bundle_recursive, any other line
ScanPlain ==
  /\ Scanning
  /\ Top.open_quote_char = ""
  /\ ~IsAnnotation(CurLine)
  /\ ~Resolved.some
  /\ LET bd == Top.brace_depth + brace_depth_delta(CurLine)
         oq == line_has_open_quote(CurLine)
     IN  stack' = SetTop([Top EXCEPT
                            !.output = Append(@, CurLine),
                            !.force_next = FALSE,
                            !.brace_depth = IF bd < 0 THEN 0 ELSE bd,
                            !.open_quote_char =
                                IF oq[1] THEN SQ ELSE IF oq[2] THEN DQ ELSE @,
                            !.idx = @ + 1])
  /\ UNCHANGED <<clivars, seen, reads, deepest, qvars, ovars>>
  /\ tick' = ~tick

\* bundle_recursive called past the depth limit: the error ends every call
DepthFail ==
  /\ pc = "bundle"
  /\ stack # <<>>
  /\ DepthExceeded(Top.depth)
  /\ stack' = <<>>
  /\ pc' = "failed"
  /\ err' = "depth"
  /\ UNCHANGED <<env, input, source, lines, result, outfile, seen, reads,
                 deepest, qvars, ovars>>
  /\ tick' = ~tick

\* a nested bundle_recursive returns: the caller extends its output
Return ==
  /\ pc = "bundle"
  /\ Len(stack) > 1
  /\ ~DepthExceeded(Top.depth)
  /\ Top.idx > Len(Top.lines)
  /\ LET caller == stack[Len(stack) - 1]
     IN  stack' = Append(SubSeq(stack, 1, Len(stack) - 2),
                         [caller EXCEPT !.output = @ \o Top.output,
                                        !.force_next = FALSE,
                                        !.idx = @ + 1])
  /\ UNCHANGED <<clivars, seen, reads, deepest, qvars, ovars>>
  /\ tick' = ~tick

\* Path::parent of the input path
InputDir == env.input_path[1]

\* minify, phase 1 with -B: the call of bundle
BundleCall ==
  /\ pc = "minify"
  /\ env.do_bundle
  /\ seen' = {}
  /\ stack' = <<Frame(input, InputDir, 0)>>
  /\ pc' = "bundle"
  /\ UNCHANGED <<env, err, input, source, lines, result, outfile, reads,
                 deepest, qvars, ovars>>
  /\ tick' = ~tick

\* bundle returns the joined lines of the outermost call
BundleReturn ==
  /\ pc = "bundle"
  /\ Len(stack) = 1
  /\ ~DepthExceeded(Top.depth)
  /\ Top.idx > Len(Top.lines)
  /\ source' = JoinNL(Top.output)
  /\ stack' = <<>>
  /\ pc' = "strip"
  /\ UNCHANGED <<env, err, input, lines, result, outfile, seen, reads,
                 deepest, qvars, ovars>>
  /\ tick' = ~tick

(***************************************************************************)
(* main.rs                                                                 *)
(***************************************************************************)
InputReadable ==
  /\ env.input_path \in DOMAIN env.files
  /\ env.input_path \notin env.unreadable

\* main: the input file is read
ReadInput ==
  /\ pc = "start"
  /\ InputReadable
  /\ input' = env.files[env.input_path]
  /\ pc' = "minify"
  /\ UNCHANGED <<env, err, source, lines, result, outfile, bvars, qvars,
                 ovars>>
  /\ tick' = ~tick

\* main: the input file cannot be read
ReadInputFail ==
  /\ pc = "start"
  /\ ~InputReadable
  /\ pc' = "failed"
  /\ err' = "read input"
  /\ UNCHANGED <<env, input, source, lines, result, outfile, bvars, qvars,
                 ovars>>
  /\ tick' = ~tick

\* minify, phase 1 without -B
NoBundle ==
  /\ pc = "minify"
  /\ ~env.do_bundle
  /\ source' = input
  /\ pc' = "strip"
  /\ UNCHANGED <<env, err, input, lines, result, outfile, bvars, qvars, ovars>>
  /\ tick' = ~tick

\* minify, phase 2
Strip ==
  /\ pc = "strip"
  /\ lines' = strip_lines(source)
  /\ pc' = "flatten"
  /\ UNCHANGED <<env, err, input, source, result, outfile, bvars, qvars,
                 ovars>>
  /\ tick' = ~tick

\* minify, phase 3, in a run without -O
Flatten ==
  /\ pc = "flatten"
  /\ ~env.do_obfuscate
  /\ lines' = flatten_lines(lines)
  /\ pc' = "join"
  /\ UNCHANGED <<env, err, input, source, result, outfile, bvars, qvars,
                 ovars>>
  /\ tick' = ~tick

\* minify, phase 5
Join ==
  /\ pc = "join"
  /\ result' = join_newlines(JoinNL(lines))
  /\ pc' = "write"
  /\ UNCHANGED <<env, err, input, source, lines, outfile, bvars, qvars, ovars>>
  /\ tick' = ~tick

\* main: the output file is written
Write ==
  /\ pc = "write"
  /\ env.out_writable
  /\ outfile' = Some(result)
  /\ pc' = "done"
  /\ UNCHANGED <<env, err, input, source, lines, result, bvars, qvars, ovars>>
  /\ tick' = ~tick

\* main: the output file cannot be written
WriteFail ==
  /\ pc = "write"
  /\ ~env.out_writable
  /\ pc' = "failed"
  /\ err' = "write"
  /\ UNCHANGED <<env, input, source, lines, result, outfile, bvars, qvars,
                 ovars>>
  /\ tick' = ~tick

(***************************************************************************)
(* The runs checked: file systems and command lines                        *)
(***************************************************************************)
MaxMainLines == 3
MaxLiteralLines == 3
MaxTargetLines == 2
MaxPipeLines == 3
MaxQuoteLen == 5

\* the sequences over S of length at most n
SeqsUpTo(S, n) == UNION {[1..k -> S] : k \in 0..n}

L_import_lib == <<"i","m","p","o","r","t"," ","l","i","b">>
L_import_main == <<"i","m","p","o","r","t"," ","m","a","i","n">>
L_func_open == <<"f","o","o","(",")"," ","{">>
L_close == <<"}">>
L_force == <<"#"," ","m","i","n","i","f","i","e","r"," ","f","o","r","c","e"," ","s","o","u","r","c","e">>
L_echo_main == <<"e","c","h","o"," ","m","a","i","n">>
L_echo_lib == <<"e","c","h","o"," ","l","i","b">>
L_echo_a == <<"e","c","h","o"," ","a">>
L_echo_b == <<"e","c","h","o"," ","b">>
L_import_a == <<"i","m","p","o","r","t"," ","a">>
L_import_b == <<"i","m","p","o","r","t"," ","b">>
L_heredoc == <<"c","a","t"," ","<","<","E","O","F">>
L_EOF == <<"E","O","F">>
L_indented_EOF == <<" ","E","O","F">>
L_quote_open == <<"e","c","h","o"," ","\"","l","i","n","e","1">>
L_quote_close == <<"l","i","n","e","3","\"">>
L_quote_escaped == <<"s","a","y"," ","\\","\"","h","i","\\","\"">>
L_source_var == <<"s","o","u","r","c","e"," ","\"","$","{","C","O","N","F","I","G","}","\"">>
L_import_up == <<"i","m","p","o","r","t"," ",".",".","/","s","e","c","r","e","t">>
L_import_abs == <<"i","m","p","o","r","t"," ","/","e","t","c","/","p","a","s","s","w","d">>
L_import_missing == <<"i","m","p","o","r","t"," ","n","o","n","e","x","i","s","t","e","n","t">>
L_import_mylib == <<"i","m","p","o","r","t"," ","@","m","y","l","i","b">>
L_dot_lib == <<"."," ",".","/","l","i","b",".","s","h">>

\* lines of the generated input files of Bundle runs
MainLines ==
  {L_import_lib, L_import_main, L_func_open, L_close, L_force, L_echo_main}
LiteralLines ==
  {L_import_lib, L_heredoc, L_EOF, L_quote_open, L_quote_close, L_quote_escaped}
TargetLines ==
  {L_import_lib, L_force, L_func_open, L_source_var, L_import_up,
   L_import_abs, L_import_missing, L_import_mylib, L_dot_lib}

MainPath == <<"d0", <<"m","a","i","n",".","s","h">>>>
LibPath == <<"d0", <<"l","i","b",".","s","h">>>>

\* the files every Bundle run has beside its input
LibFiles ==
  (LibPath :> FileText(<<L_echo_lib>>))
  @@ (<<"d1", <<"m","y","l","i","b",".","s","h">>>> :> FileText(<<<<"e","c","h","o"," ","m","y","l","i","b">>>>))
  @@ (<<"top", <<"s","e","c","r","e","t",".","s","h">>>> :> FileText(<<<<"e","c","h","o"," ","s","e","c","r","e","t">>>>))
  @@ (<<"/", <<"e","t","c","/","p","a","s","s","w","d">>>> :> FileText(<<<<"r","o","o","t",":","x">>>>))

Env(files, unreadable, input_path, do_bundle, out_writable) ==
  [files |-> files, unreadable |-> unreadable, input_path |-> input_path,
   search_paths |-> <<"d1">>, do_bundle |-> do_bundle,
   do_obfuscate |-> FALSE, ignore_vars |-> <<"u","s","a","g","e",",","a","r","g","s">>,
   exclude_vars |-> <<>>, out_writable |-> out_writable]

\* -B on an input file made of the given lines
BundleEnv(ls) ==
  Env((MainPath :> FileText(ls)) @@ LibFiles, {}, MainPath, TRUE, TRUE)

\* a.sh and b.sh import each other at top level
APath == <<"d0", <<"a",".","s","h">>>>
BPath == <<"d0", <<"b",".","s","h">>>>
CycleEnv ==
  Env((APath :> FileText(<<L_import_b, L_echo_a>>))
      @@ (BPath :> FileText(<<L_import_a, L_echo_b>>)),
      {}, APath, TRUE, TRUE)

\* the decimal digits of n
RECURSIVE Decimal(_)
Decimal(n) ==
  LET d == <<"0","1","2","3","4","5","6","7","8","9">>[(n % 10) + 1]
  IN  IF n < 10 THEN <<d>> ELSE Decimal(n \div 10) \o <<d>>

ChainName(i) == <<"d">> \o Decimal(i)
ChainPath(i) == <<"d0", ChainName(i) \o <<".","s","h">>>>

\* d0.sh imports d1, d1.sh imports d2, ... up to the leaf dn.sh
ChainFiles(n) ==
  [q \in {ChainPath(i) : i \in 0..n} |->
     LET i == CHOOSE j \in 0..n : ChainPath(j) = q
     IN  IF i = n THEN FileText(<<<<"e","c","h","o"," ","l","e","a","f">>>>)
         ELSE FileText(<<<<"i","m","p","o","r","t"," ">> \o ChainName(i + 1)>>)]

ChainEnv(n) == Env(ChainFiles(n), {}, ChainPath(0), TRUE, TRUE)

\* the same import at top level twice and once inside a function body
DedupEnv ==
  BundleEnv(<<L_import_lib, L_import_lib, L_func_open, L_import_lib, L_close>>)

\* one directive of each kind that cannot be resolved
UnresolvableLines ==
  <<L_source_var, L_import_up, L_import_abs, L_import_missing>>
UnresolvableEnv == BundleEnv(UnresolvableLines)

\* -O on an input file made of the given lines, with the -I list and the
\* -V patterns given
ObfEnv(ls, ignore_vars, exclude_vars) ==
  [Env((MainPath :> FileText(ls)) @@ LibFiles, {}, MainPath, FALSE, TRUE)
     EXCEPT !.do_obfuscate = TRUE, !.ignore_vars = ignore_vars,
            !.exclude_vars = exclude_vars]

L_local_foo == <<"l","o","c","a","l"," ","f","o","o","=","1">>
L_echo_foo == <<"e","c","h","o"," ","$","f","o","o">>
L_ignore == <<"#"," ","o","b","f","u","s"," ","i","g","n","o","r","e"," ","v","a","r","i","a","b","l","e">>
L_keep == <<"k","e","e","p","=","1">>
L_foo == <<"f","o","o","=","2">>
L_echo_keep_foo == <<"e","c","h","o"," ","$","k","e","e","p"," ","$","f","o","o">>

\* obfuscate.rs, VarPatterns::apply: the iterations a looped rule is given
MaxRuleLoop == 100

\* the text s written n times
RECURSIVE Repeated(_, _)
Repeated(s, n) == IF n = 0 THEN <<>> ELSE s \o Repeated(s, n - 1)

\* one line with one more assignment to x than a looped rule has iterations
ManyAssignments == Repeated(<<"x", "=", " ">>, MaxRuleLoop + 1)

\* the runs with -O or with a -I list: the default list, a list and a -V
\* pattern that do not compile, the list "*", -O together with -B, and a
\* list that does not compile in a run without -O
ObfRuns ==
  {ObfEnv(<<L_local_foo, L_echo_foo>>, <<"u","s","a","g","e",",","a","r","g","s">>, <<>>),
   ObfEnv(<<L_ignore, L_keep, <<"#"," ","c">>, L_foo, L_echo_keep_foo>>, <<"u","s","a","g","e",",","a","r","g","s">>, <<>>),
   ObfEnv(<<L_local_foo, L_echo_foo>>, <<"(">>, <<>>),
   ObfEnv(<<L_local_foo, L_echo_foo>>, <<"u","s","a","g","e",",","a","r","g","s">>, <<<<"a",")">>>>),
   ObfEnv(<<L_local_foo, L_echo_foo>>, <<"*">>, <<>>),
   ObfEnv(<<ManyAssignments>>, <<"u","s","a","g","e",",","a","r","g","s">>, <<>>),
   [ObfEnv(<<L_import_lib, L_local_foo>>, <<"u","s","a","g","e",",","a","r","g","s">>, <<>>) EXCEPT !.do_bundle = TRUE],
   [ObfEnv(<<L_local_foo, L_echo_foo>>, <<"(">>, <<>>) EXCEPT !.do_obfuscate = FALSE]}

\* lines of the input files of runs without -B
PipeLineSet ==
  {L_heredoc, L_EOF, <<"#"," ","c">>, <<"#"," ","s","e","e"," ","<","<","E","O","F">>, <<"t","h","e","n",";">>, <<"x","#","!","/","b">>,
   <<" "," ","e","c","h","o"," ","a",";">>, <<>>, L_import_lib}

PipeEnv(ls) == Env((MainPath :> FileText(ls)), {}, MainPath, FALSE, TRUE)

\* a heredoc whose body holds the delimiter with a leading space
IndentedDelimLines ==
  <<L_heredoc, L_indented_EOF, <<"#"," ","c">>,
    <<" "," ","e","c","h","o"," ","a",";">>, L_EOF>>

\* an `if` whose body has a command that ends in the letters `do`, followed
\* by a second command on the same line
KeywordTailLines ==
  <<<<"i","f"," ","t","r","u","e",";"," ","t","h","e","n">>,
    <<" "," ","u","n","d","o",";"," ","l","s">>, <<"f","i">>>>

\* a double-quoted string left open by a line that ends with an operator
QuoteOperatorLines ==
  <<<<"e","c","h","o"," ","\"","a"," ","|">>, <<"b","\"">>,
    <<"e","c","h","o"," ","c">>>>

\* a double-quoted string over four lines: inside it a line that starts
\* with #, and an indented line that ends with a semicolon
QuotedBlockLines ==
  <<L_quote_open, <<"#"," ","c">>, <<" "," ","e","c","h","o"," ","a",";">>,
    L_quote_close>>

\* a loop whose body has a command that ends in the letters `do`, followed
\* by a second command on the next line
UndoLoopLines ==
  <<<<"w","h","i","l","e"," ","t","r","u","e">>, <<"d","o">>, <<"m","a","k","e"," ","u","n","d","o">>, <<"l","s">>, <<"d","o","n","e">>>>

\* a function body whose second line expands a parameter with the default
\* value "}", and then a directive for a file that was inlined before
L_default_brace == <<"e","c","h","o"," ","$","{","x",":","-","\"","}","\"","}">>
DefaultBraceEnv ==
  BundleEnv(<<L_import_lib, L_func_open, L_default_brace, L_import_lib,
              L_close>>)

\* a command whose double-quoted argument holds `<<EOF`, followed by an
\* indented command that ends with a semicolon
QuotedHeredocLines ==
  <<<<"e","c","h","o"," ","\"","s","e","e"," ","<","<","E","O","F","\"">>, <<" "," ","e","c","h","o"," ","a",";">>, <<"l","s">>>>

\* a `case` block with a line that is neither a pattern nor `esac`, and a
\* `case ... esac` on one line with two commands after it
StrayCaseLines ==
  <<<<"c","a","s","e"," ","$","x"," ","i","n">>, <<"e","c","h","o"," ","s","t","r","a","y">>, <<"a",")"," ","l","s"," ",";",";">>, <<"e","s","a","c">>>>
OneLineCaseLines ==
  <<<<"c","a","s","e"," ","$","x"," ","i","n"," ","a",")"," ","l","s"," ",";",";"," ","e","s","a","c">>, <<"e","c","h","o"," ","a","f","t","e","r">>, <<"e","c","h","o"," ","m","o","r","e">>>>

\* a here-string and an arithmetic left shift, each followed by a comment
\* line and an indented command
HereStringLines ==
  <<<<"c","a","t"," ","<","<","<"," ","\"","w","o","r","d","\"">>, <<"#"," ","c">>, <<" "," ","e","c","h","o"," ","a",";">>>>
ShiftLines ==
  <<<<"(","("," ","y"," ","="," ","x"," ","<","<"," ","2"," ",")",")">>, <<"#"," ","c">>, <<" "," ","e","c","h","o"," ","a",";">>>>

\* lib is inlined at top level, and then wrap, whose first line imports lib,
\* is imported inside a function body
WrapPath == <<"d0", <<"w","r","a","p",".","s","h">>>>
ScopedWrapEnv ==
  Env((MainPath :> FileText(<<L_import_lib, L_func_open, <<"i","m","p","o","r","t"," ","w","r","a","p">>,
                              L_close>>))
      @@ (WrapPath :> FileText(<<L_import_lib, <<"e","c","h","o"," ","w","r","a","p">>>>))
      @@ LibFiles,
      {}, MainPath, TRUE, TRUE)

Scenarios ==
  {BundleEnv(ls) : ls \in SeqsUpTo(MainLines, MaxMainLines)}
  \cup {BundleEnv(ls) : ls \in SeqsUpTo(LiteralLines, MaxLiteralLines)}
  \cup {BundleEnv(ls) : ls \in SeqsUpTo(TargetLines, MaxTargetLines)}
  \cup {PipeEnv(ls) : ls \in SeqsUpTo(PipeLineSet, MaxPipeLines)}
  \cup {CycleEnv, ChainEnv(MAX_DEPTH), ChainEnv(MAX_DEPTH + 1),
        DedupEnv, UnresolvableEnv, DefaultBraceEnv,
        ScopedWrapEnv}
  \cup {PipeEnv(IndentedDelimLines), PipeEnv(KeywordTailLines),
        PipeEnv(QuoteOperatorLines), PipeEnv(QuotedBlockLines),
        PipeEnv(UndoLoopLines), PipeEnv(QuotedHeredocLines),
        PipeEnv(StrayCaseLines), PipeEnv(OneLineCaseLines),
        PipeEnv(HereStringLines), PipeEnv(ShiftLines)}
  \cup {\* an import that cannot be read, no input file, no writable output
        Env((MainPath :> FileText(<<L_echo_main, L_import_lib>>)) @@ LibFiles,
            {LibPath}, MainPath, TRUE, TRUE),
        Env(LibFiles, {}, MainPath, TRUE, TRUE),
        Env((MainPath :> FileText(<<L_echo_main>>)), {}, MainPath, FALSE, FALSE)}
  \cup ObfRuns

QuoteAlphabet == {SQ, DQ, BS, "a"}
QuoteLines == SeqsUpTo(QuoteAlphabet, MaxQuoteLen)

(***************************************************************************)
(* discover.rs                                                             *)
(***************************************************************************)
\* [ \t]*
BlankStar == Star(<<Ch(Blank)>>)
\* '[^']*'
SQSpan == <<Ch({SQ}), Star(<<NotCh({SQ})>>), Ch({SQ})>>
\* "[^"]*"
DQSpan == <<Ch({DQ}), Star(<<NotCh({DQ})>>), Ch({DQ})>>
\* \({2}
TwoParens == <<Ch({"("}), Ch({"("})>>
\* [-+]{2}
TwoSigns == <<Ch({"+", "-"}), Ch({"+", "-"})>>
\* [a-z][a-z0-9_]*
VarName == <<Ch(Lower), Star(<<Ch(Lower \cup Digit \cup {"_"})>>)>>
\* (?:[ \t]|-\w)*
LocalFlags == Star(<<Alt(<<Ch(Blank)>>, <<Ch({"-"}), Ch(WordCh)>>)>>)
\* (?:^|[ \t]+)
LineOrBlanks == Alt(<<Bol>>, Plus(<<Ch(Blank)>>))

RE_ASSIGNMENT == <<Bol, BlankStar, Grp(1, VarName), Ch({"="})>>
RE_LOCAL ==
  <<LineOrBlanks>> \o Lit(<<"l","o","c","a","l">>) \o <<Ch(SpaceCh), LocalFlags, Grp(1, VarName),
    Alt(<<Ch({"="})>>, <<Alt(<<Ch(SpaceCh)>>, <<Eol>>)>>)>>
RE_LOCAL_HAS_DECLARE == <<LineOrBlanks>> \o Lit(<<"d","e","c","l","a","r","e">>) \o <<Ch(SpaceCh)>>
RE_READ ==
  Lit(<<"r","e","a","d">>) \o Plus(<<Ch(SpaceCh)>>)
  \o <<Star(<<Ch({"-"}), Ch(WordCh)>> \o Plus(<<Ch(SpaceCh)>>)), Grp(1, VarName)>>
RE_FOR ==
  <<Bol, BlankStar>> \o Lit(<<"f","o","r">>) \o Plus(<<Ch(SpaceCh)>>)
  \o <<Grp(1, VarName), Ch(SpaceCh)>>
RE_ARRAY ==
  <<Bol, BlankStar, Grp(1, VarName), Ch({"["})>> \o Plus(<<AnyCh>>)
  \o <<Ch({"]"}), Ch({"="})>>
RE_PRE_INCR ==
  <<Bol, BlankStar>> \o TwoParens \o <<Star(<<Ch(SpaceCh)>>)>> \o TwoSigns
  \o <<Grp(1, VarName), Star(<<Ch(SpaceCh)>>), Ch({")"}), Ch({")"})>>
RE_POST_INCR ==
  <<Bol, BlankStar>> \o TwoParens \o <<Star(<<Ch(SpaceCh)>>), Grp(1, VarName)>>
  \o TwoSigns \o <<Star(<<Ch(SpaceCh)>>), Ch({")"}), Ch({")"})>>
RE_IGNORE_ANNOTATION ==
  <<Bol, BlankStar>> \o Lit(<<"#"," ","o","b","f","u","s"," ","i","g","n","o","r","e"," ","v","a","r","i","a","b","l","e">>)
RE_COMMENT_LINE == <<Bol, BlankStar, Ch({"#"})>>
RE_BLANK_LINE == <<Bol, BlankStar, Eol>>
RE_LOCAL_STRIP_PREFIX ==
  <<Bol, Star(<<AnyCh>>)>> \o Lit(<<"l","o","c","a","l">>) \o <<Ch(SpaceCh), LocalFlags>>
RE_PARENS == <<Ch({"(", "{"}), LazyStar(<<AnyCh>>), Ch({")", "}"})>>
RE_QUOTED == <<Alt(DQSpan, SQSpan)>>
RE_EQUALS_VAL == <<Ch({"="}), Star(<<NotCh(SpaceCh)>>)>>
RE_VAR_NAME == <<Bol>> \o VarName \o <<Eol>>

\* the loop body of split_outside_quotes
SplitStep(st, line, i) ==
  CASE line[i] = SQ /\ ~st.in_double -> [st EXCEPT !.in_single = ~@]
    [] line[i] = DQ /\ ~st.in_single -> [st EXCEPT !.in_double = ~@]
    [] line[i] = ";" /\ ~st.in_single /\ ~st.in_double ->
         [st EXCEPT !.segments = Append(@, SubSeq(line, st.start, i - 1)),
                    !.start = i + 1]
    [] OTHER -> st

\* the line split on the semicolons outside single and double quotes
split_outside_quotes(line) ==
  LET Rest(st) == Append(st.segments, SubSeq(line, st.start, Len(line)))
  IN  Rest(FoldChars(SplitStep, line, 1, Len(line),
                     [segments |-> <<>>, start |-> 1, in_single |-> FALSE,
                      in_double |-> FALSE]))

\* the loop body of str::split_whitespace: word is the word being read
WordStep(st, s, i) ==
  IF s[i] \in SpaceCh
  THEN (IF st.word = <<>> THEN st
        ELSE [words |-> Append(st.words, st.word), word |-> <<>>])
  ELSE [st EXCEPT !.word = Append(@, s[i])]

\* str::split_whitespace
split_whitespace(s) ==
  FoldChars(WordStep, s \o <<" ">>, 1, Len(s) + 1,
            [words |-> <<>>, word |-> <<>>]).words

\* the names a local declaration lists
LocalNames(segment) ==
  LET Names(words) ==
        {words[i] : i \in {j \in 1..Len(words) : VmIsMatch(RE_VAR_NAME, words[j])}}
  IN  Names(split_whitespace(
        VmReplaceAll(RE_EQUALS_VAL,
          VmReplaceAll(RE_QUOTED,
            VmReplaceAll(RE_PARENS,
              VmReplace(RE_LOCAL_STRIP_PREFIX, segment, <<>>), <<>>), <<>>), <<>>)))

\* the first capture group of the first of the patterns res that matches,
\* none when none of them does
RECURSIVE FirstCapture(_, _)
FirstCapture(res, segment) ==
  IF res = <<>> THEN {}
  ELSE LET Captured(cap) ==
             IF cap.ok THEN {Cap(cap, segment, 1)}
             ELSE FirstCapture(Tail(res), segment)
       IN  Captured(VmSearch(Head(res), segment))

\* discover_from_segment: the names the segment adds to vars
discover_from_segment(segment) ==
  LET Assigned(cap) ==
        IF cap.ok THEN {Cap(cap, segment, 1)} \ {<<"I","F","S">>}
        ELSE IF ~VmIsMatch(RE_LOCAL_HAS_DECLARE, segment)
                /\ VmIsMatch(RE_LOCAL, segment)
        THEN LocalNames(segment)
        ELSE FirstCapture(<<RE_READ, RE_FOR, RE_ARRAY, RE_PRE_INCR, RE_POST_INCR>>,
                          segment)
  IN  Assigned(VmSearch(RE_ASSIGNMENT, segment))

\* the names the segments of a scanned line add to vars
LineNames(line) ==
  LET Of(segments) ==
        UNION {IF Trim(segments[i]) = <<>> THEN {}
               ELSE discover_from_segment(Trim(segments[i])) :
               i \in 1..Len(segments)}
  IN  Of(split_outside_quotes(line))

\* the byte of a character of a name
Byte(c) ==
  CHOOSE n \in 1..37 :
    <<"0","1","2","3","4","5","6","7","8","9","_","a","b","c","d","e","f",
      "g","h","i","j","k","l","m","n","o","p","q","r","s","t","u","v","w",
      "x","y","z">>[n] = c

\* a.cmp(b) is Less for two strings
StrLess(a, b) ==
  \E i \in 1..(Len(a) + 1) :
    /\ i <= Len(b)
    /\ SubSeq(a, 1, i - 1) = SubSeq(b, 1, i - 1)
    /\ (i = Len(a) + 1 \/ Byte(a[i]) < Byte(b[i]))

\* a comparator that orders by the names alone
SortsBefore_NameOnly(a, b) == StrLess(a, b)

\* the comparator of result.sort_by is Less for a and b
SortsBefore(a, b) ==
  Len(a) > Len(b) \/ (Len(a) = Len(b) /\ StrLess(a, b))

\* Vec::sort_by of the names of a set
RECURSIVE SortNames(_)
SortNames(S) ==
  IF S = {} THEN <<>>
  ELSE LET first == CHOOSE a \in S : \A b \in S \ {a} : SortsBefore(a, b)
       IN  <<first>> \o SortNames(S \ {first})

\* the names no ignore pattern matches, sorted
FilterSort(found, ignore_patterns) ==
  SortNames({v \in found :
               \A k \in 1..Len(ignore_patterns) : ~VmIsMatch(ignore_patterns[k], v)})

\* the loop of discover_variables from line i on
RECURSIVE DiscoverLoop(_, _, _, _)
DiscoverLoop(ls, i, found, skip) ==
  IF i > Len(ls) THEN found
  ELSE IF VmIsMatch(RE_IGNORE_ANNOTATION, ls[i])
  THEN DiscoverLoop(ls, i + 1, found, skip + 1)
  ELSE IF skip > 0 THEN DiscoverLoop(ls, i + 1, found, skip - 1)
  ELSE IF VmIsMatch(RE_COMMENT_LINE, ls[i]) \/ VmIsMatch(RE_BLANK_LINE, ls[i])
  THEN DiscoverLoop(ls, i + 1, found, skip)
  ELSE DiscoverLoop(ls, i + 1, found \cup LineNames(ls[i]), skip)

discover_variables(src, ignore_patterns) ==
  FilterSort(DiscoverLoop(Lines(src), 1, {}, 0), ignore_patterns)

\* str::split(',') followed by filter(|s| !s.is_empty())
CommaStep(st, s, i) ==
  IF s[i] = ","
  THEN (IF st.word = <<>> THEN st
        ELSE [words |-> Append(st.words, st.word), word |-> <<>>])
  ELSE [st EXCEPT !.word = Append(@, s[i])]

NonEmptyParts(s) ==
  FoldChars(CommaStep, s \o <<",">>, 1, Len(s) + 1,
            [words |-> <<>>, word |-> <<>>]).words

\* Regex::new, one character of the pattern at a time, for patterns made of
\* literal characters, ^, $, ., a starred character and groups (?: ) that
\* carry no quantifier: nodes is the pattern parsed so far, depth the number
\* of open groups, skip the characters of a group's ?: still to pass, ok is
\* FALSE once the pattern has a syntax error
RegexStep(st, s, i) ==
  IF ~st.ok THEN st
  ELSE IF st.skip > 0 THEN [st EXCEPT !.skip = @ - 1]
  ELSE IF s[i] = "("
  THEN [st EXCEPT !.depth = @ + 1,
                  !.skip = IF i + 2 <= Len(s) /\ s[i + 1] = "?" /\ s[i + 2] = ":"
                           THEN 2 ELSE 0]
  ELSE IF s[i] = ")"
  THEN (IF st.depth = 0 THEN [st EXCEPT !.ok = FALSE]
        ELSE [st EXCEPT !.depth = @ - 1])
  ELSE IF s[i] = "*"
  THEN (IF st.nodes = <<>> \/ (i > 1 /\ s[i - 1] \in {"(", ":", "^"})
        THEN [st EXCEPT !.ok = FALSE]
        ELSE [st EXCEPT !.nodes =
                SubSeq(st.nodes, 1, Len(st.nodes) - 1)
                \o <<Star(<<st.nodes[Len(st.nodes)]>>)>>])
  ELSE [st EXCEPT !.nodes =
          Append(@, CASE s[i] = "^" -> Bol
                      [] s[i] = "$" -> Eol
                      [] s[i] = "." -> AnyCh
                      [] OTHER -> Ch({s[i]}))]

\* a Regex::new that accepts every pattern
Regex_new_Lenient(s) ==
  Some(FoldChars(RegexStep, s, 1, Len(s),
                 [nodes |-> <<>>, depth |-> 0, skip |-> 0, ok |-> TRUE]).nodes)

\* Regex::new: the compiled pattern, None for a syntax error
Regex_new(s) ==
  LET Parsed(st) == IF st.ok /\ st.depth = 0 THEN Some(st.nodes) ELSE None
  IN  Parsed(FoldChars(RegexStep, s, 1, Len(s),
                       [nodes |-> <<>>, depth |-> 0, skip |-> 0, ok |-> TRUE]))

\* the pattern parse_ignore_patterns compiles for one part of the list
IgnorePattern(s) ==
  IF s[1] = "^" \/ s[Len(s)] = "$" THEN Regex_new(s)
  ELSE Regex_new(<<"^","(","?",":">> \o s \o <<")","$">>)

\* parse_ignore_patterns: the compiled patterns, None when one of them does
\* not compile
parse_ignore_patterns(pattern) ==
  IF pattern = <<"*">> THEN Some(<<Regex_new(<<".","*">>).val>>)
  ELSE LET parts == NonEmptyParts(pattern)
           Collected(res) ==
             IF \E k \in 1..Len(res) : ~res[k].some THEN None
             ELSE Some([k \in 1..Len(res) |-> res[k].val])
       IN  Collected([k \in 1..Len(parts) |-> IgnorePattern(parts[k])])

(***************************************************************************)
(* obfuscate.rs                                                            *)
(***************************************************************************)
\* sorted_vars[i] -> prefix + i, i counted from 0; a name listed twice
\* keeps the entry inserted last
build_rename_map(names, prefix) ==
  [v \in {names[i] : i \in 1..Len(names)} |->
     prefix \o Decimal(MaxOf({i \in 1..Len(names) : names[i] = v}) - 1)]

\* [^']*(?:(?:'[^']*')*(?:"[^"]*")*)*"[^"]*
InDoubleQuote ==
  <<Star(<<NotCh({SQ})>>), Star(<<Star(SQSpan), Star(DQSpan)>>), Ch({DQ}),
    Star(<<NotCh({DQ})>>)>>
\* (?:[^']*(?:'[^']*')*[^']*)*
OutsideSingleQuote ==
  <<Star(<<Star(<<NotCh({SQ})>>), Star(SQSpan), Star(<<NotCh({SQ})>>)>>)>>
\* \$\{
DollarBrace == <<Ch({"$"}), Ch({"{"})>>
\* [^}]*\}
ToBrace == <<Star(<<NotCh({"}"})>>), Ch({"}"})>>

\* one rule of VarPatterns: the pattern, the replacement and use_loop
Rule(re, tpl, looped) == [re |-> re, tpl |-> tpl, looped |-> looped]
\* ${1}r${2} and ${1}r
Around(r) == <<TGroup(1), TText(r), TGroup(2)>>
Prefixed(r) == <<TGroup(1), TText(r)>>

\* VarPatterns::compile: the rules of one variable, in the order they are
\* added; v is the variable, r its replacement
compile(v, r) ==
  << \* 1. ([ \t]*)\bV=
     Rule(<<Grp(1, <<BlankStar>>), WordB>> \o Lit(v) \o <<Ch({"="})>>,
          <<TGroup(1), TText(r \o <<"=">>)>>, TRUE),
     \* 2. ([ \t]*(?:local|declare)(?:[ \t]|-\w)*[^;]*\s)V(\s|=|$)
     Rule(<<Grp(1, <<BlankStar, Alt(Lit(<<"l","o","c","a","l">>), Lit(<<"d","e","c","l","a","r","e">>)),
                     Star(<<Alt(<<Ch(Blank)>>, <<Ch({"-"}), Ch(WordCh)>>)>>),
                     Star(<<NotCh({";"})>>), Ch(SpaceCh)>>)>>
          \o Lit(v)
          \o <<Grp(2, <<Alt(<<Ch(SpaceCh)>>, <<Alt(<<Ch({"="})>>, <<Eol>>)>>)>>)>>,
          Around(r), TRUE),
     \* 3. ^([^']*(?:(?:'[^']*')*(?:"[^"]*")*)*"[^"]*|[^'"]*)\bV([+\-]?=)
     Rule(<<Bol, Grp(1, <<Alt(InDoubleQuote, <<Star(<<NotCh({SQ, DQ})>>)>>)>>),
            WordB>> \o Lit(v)
          \o <<Grp(2, <<Opt(<<Ch({"+", "-"})>>), Ch({"="})>>)>>,
          Around(r), TRUE),
     \* 4. ([|]\s+)V([+\-]?=)
     Rule(<<Grp(1, <<Ch({"|"})>> \o Plus(<<Ch(SpaceCh)>>))>> \o Lit(v)
          \o <<Grp(2, <<Opt(<<Ch({"+", "-"})>>), Ch({"="})>>)>>,
          Around(r), FALSE),
     \* 5. ^(.*read\s.*)\bV([ ;}'"\n])
     Rule(<<Bol, Grp(1, <<Star(<<AnyCh>>)>> \o Lit(<<"r","e","a","d">>)
                        \o <<Ch(SpaceCh), Star(<<AnyCh>>)>>), WordB>>
          \o Lit(v) \o <<Grp(2, <<Ch({" ", ";", "}", SQ, DQ, NL})>>)>>,
          Around(r), TRUE),
     \* 6. ^(printf\s+-v\s+|mapfile\s+-t\s+)V([^\w])
     Rule(<<Bol, Grp(1, <<Alt(Lit(<<"p","r","i","n","t","f">>) \o Plus(<<Ch(SpaceCh)>>)
                              \o Lit(<<"-","v">>) \o Plus(<<Ch(SpaceCh)>>),
                              Lit(<<"m","a","p","f","i","l","e">>) \o Plus(<<Ch(SpaceCh)>>)
                              \o Lit(<<"-","t">>) \o Plus(<<Ch(SpaceCh)>>))>>)>>
          \o Lit(v) \o <<Grp(2, <<NotCh(WordCh)>>)>>,
          Around(r), FALSE),
     \* 7. ^([ \t]*for\s+)V\b
     Rule(<<Bol, Grp(1, <<BlankStar>> \o Lit(<<"f","o","r">>) \o Plus(<<Ch(SpaceCh)>>))>>
          \o Lit(v) \o <<WordB>>,
          Prefixed(r), FALSE),
     \* 8. ([ \t]*)\bV(\[.+?\]=)
     Rule(<<Grp(1, <<BlankStar>>), WordB>> \o Lit(v)
          \o <<Grp(2, <<Ch({"["})>> \o LazyPlus(<<AnyCh>>)
                      \o <<Ch({"]"}), Ch({"="})>>)>>,
          Around(r), TRUE),
     \* 9. ^(.*\$\{)V(\[)
     Rule(<<Bol, Grp(1, <<Star(<<AnyCh>>)>> \o DollarBrace)>> \o Lit(v)
          \o <<Grp(2, <<Ch({"["})>>)>>,
          Around(r), TRUE),
     \* 10. ^(.*unset\s+['"])V(\[)
     Rule(<<Bol, Grp(1, <<Star(<<AnyCh>>)>> \o Lit(<<"u","n","s","e","t">>)
                        \o Plus(<<Ch(SpaceCh)>>) \o <<Ch({SQ, DQ})>>)>>
          \o Lit(v) \o <<Grp(2, <<Ch({"["})>>)>>,
          Around(r), FALSE),
     \* 11. ^([ \t]*\({2}\s*[-+]{2})V\b
     Rule(<<Bol, Grp(1, <<BlankStar>> \o TwoParens
                        \o <<Star(<<Ch(SpaceCh)>>)>> \o TwoSigns)>>
          \o Lit(v) \o <<WordB>>,
          Prefixed(r), FALSE),
     \* 12. ^([ \t]*\({2}\s*)V([-+]{2})
     Rule(<<Bol, Grp(1, <<BlankStar>> \o TwoParens
                        \o <<Star(<<Ch(SpaceCh)>>)>>)>>
          \o Lit(v) \o <<Grp(2, TwoSigns)>>,
          Around(r), FALSE),
     \* 13. ([:+\- ]+)V([:}+])
     Rule(<<Grp(1, Plus(<<Ch({":", "+", "-", " "})>>))>> \o Lit(v)
          \o <<Grp(2, <<Ch({":", "}", "+"})>>)>>,
          Around(r), TRUE),
     \* 14. (\$\{[^}]+[\[+\-])V([\]+\-][^}]*\})
     Rule(<<Grp(1, DollarBrace \o Plus(<<NotCh({"}"})>>)
                   \o <<Ch({"[", "+", "-"})>>)>> \o Lit(v)
          \o <<Grp(2, <<Ch({"]", "+", "-"})>> \o ToBrace)>>,
          Around(r), TRUE),
     \* 14b. (\$\{[^}:]+:)V\b([^}]*\})
     Rule(<<Grp(1, DollarBrace \o Plus(<<NotCh({"}", ":"})>>)
                   \o <<Ch({":"})>>)>> \o Lit(v)
          \o <<WordB, Grp(2, ToBrace)>>,
          Around(r), TRUE),
     \* 14c. (\$\{[^}:]+:\w[^}]*?)\bV\b([^}]*\})
     Rule(<<Grp(1, DollarBrace \o Plus(<<NotCh({"}", ":"})>>)
                   \o <<Ch({":"}), Ch(WordCh), LazyStar(<<NotCh({"}"})>>)>>),
            WordB>> \o Lit(v) \o <<WordB, Grp(2, ToBrace)>>,
          Around(r), TRUE),
     \* 15. ^((?:[^']*(?:'[^']*')*[^']*)*)\$V(\W)
     Rule(<<Bol, Grp(1, OutsideSingleQuote), Ch({"$"})>> \o Lit(v)
          \o <<Grp(2, <<NotCh(WordCh)>>)>>,
          <<TGroup(1), TText(<<"$">> \o r), TGroup(2)>>, TRUE),
     \* 16. ^([^']*(?:(?:'[^']*')*(?:"[^"]*")*)*"[^"]*)\$V(\W)
     Rule(<<Bol, Grp(1, InDoubleQuote), Ch({"$"})>> \o Lit(v)
          \o <<Grp(2, <<NotCh(WordCh)>>)>>,
          <<TGroup(1), TText(<<"$">> \o r), TGroup(2)>>, TRUE),
     \* 17. ^((?:[^']*(?:'[^']*')*[^']*)*\$\{[!#]?)V(\W)
     Rule(<<Bol, Grp(1, OutsideSingleQuote \o DollarBrace
                        \o <<Opt(<<Ch({"!", "#"})>>)>>)>> \o Lit(v)
          \o <<Grp(2, <<NotCh(WordCh)>>)>>,
          Around(r), TRUE),
     \* 18. ^([^']*(?:(?:'[^']*')*(?:"[^"]*")*)*"[^"]*\$\{#?)V(\W)
     Rule(<<Bol, Grp(1, InDoubleQuote \o DollarBrace
                        \o <<Opt(<<Ch({"#"})>>)>>)>> \o Lit(v)
          \o <<Grp(2, <<NotCh(WordCh)>>)>>,
          Around(r), TRUE),
     \* 19. ([(\[]{2}[^)]*\$\{#?)V([\[:}])
     Rule(<<Grp(1, <<Ch({"(", "["}), Ch({"(", "["}), Star(<<NotCh({")"})>>)>>
                   \o DollarBrace \o <<Opt(<<Ch({"#"})>>)>>)>> \o Lit(v)
          \o <<Grp(2, <<Ch({"[", ":", "}"})>>)>>,
          Around(r), TRUE),
     \* 20a. (\(\([^)]*[\s;<>])V([;\s<>])
     Rule(<<Grp(1, TwoParens \o <<Star(<<NotCh({")"})>>),
                                  Ch(SpaceCh \cup {";", "<", ">"})>>)>>
          \o Lit(v) \o <<Grp(2, <<Ch(SpaceCh \cup {";", "<", ">"})>>)>>,
          Around(r), TRUE),
     \* 20b. (\(\([^)]*[=+\-\s])V([=+\-\s);\[])
     Rule(<<Grp(1, TwoParens \o <<Star(<<NotCh({")"})>>),
                                  Ch(SpaceCh \cup {"=", "+", "-"})>>)>>
          \o Lit(v)
          \o <<Grp(2, <<Ch(SpaceCh \cup {"=", "+", "-", ")", ";", "["})>>)>>,
          Around(r), TRUE) >>

\* the loop of a looped rule, n iterations done
RECURSIVE RuleLoop(_, _, _)
RuleLoop(rule, s, n) ==
  IF n = MaxRuleLoop THEN s
  ELSE LET Again(next) == IF next = s THEN s ELSE RuleLoop(rule, next, n + 1)
       IN  Again(VmReplace(rule.re, s, rule.tpl))

\* one rule of VarPatterns::apply
ApplyRule(rule, s) ==
  IF rule.looped THEN RuleLoop(rule, s, 0)
  ELSE VmReplace(rule.re, s, rule.tpl)

\* the loop body of VarPatterns::apply
RuleStep(s, rules, k) == ApplyRule(rules[k], s)

apply(rules, s) == FoldChars(RuleStep, rules, 1, Len(rules), s)

\* the patterns of the variables from index i on applied in order
RECURSIVE ApplyVars(_, _, _, _)
ApplyVars(names, rename, i, s) ==
  IF i > Len(names) THEN s
  ELSE ApplyVars(names, rename, i + 1,
                 apply(compile(names[i], rename[names[i]]), s))

\* the sentinel newline is stripped
StripSentinel(s) ==
  IF s # <<>> /\ s[Len(s)] = NL THEN SubSeq(s, 1, Len(s) - 1) ELSE s

\* Obfuscator::obfuscate_line of Obfuscator::new(names, rename)
obfuscate_line(names, rename, line) ==
  StripSentinel(ApplyVars(names, rename, 1, line \o <<NL>>))

\* discover_variables: the line the loop is at
ScanLine == Lines(source)[scan.i]

\* discover_variables: an ignore annotation
DiscoverAnnotation ==
  /\ pc = "discover"
  /\ scan.i <= Len(Lines(source))
  /\ VmIsMatch(RE_IGNORE_ANNOTATION, ScanLine)
  /\ scan' = [scan EXCEPT !.i = @ + 1, !.skip_next = @ + 1]
  /\ UNCHANGED <<clivars, bvars, qvars, cfg, sorted_vars, rename_map, ob>>
  /\ tick' = ~tick

\* discover_variables: a line skipped after an annotation
DiscoverSkip ==
  /\ pc = "discover"
  /\ scan.i <= Len(Lines(source))
  /\ ~VmIsMatch(RE_IGNORE_ANNOTATION, ScanLine)
  /\ scan.skip_next > 0
  /\ scan' = [scan EXCEPT !.i = @ + 1, !.skip_next = @ - 1]
  /\ UNCHANGED <<clivars, bvars, qvars, cfg, sorted_vars, rename_map, ob>>
  /\ tick' = ~tick

\* discover_variables: a comment or blank line
DiscoverComment ==
  /\ pc = "discover"
  /\ scan.i <= Len(Lines(source))
  /\ ~VmIsMatch(RE_IGNORE_ANNOTATION, ScanLine)
  /\ scan.skip_next = 0
  /\ VmIsMatch(RE_COMMENT_LINE, ScanLine) \/ VmIsMatch(RE_BLANK_LINE, ScanLine)
  /\ scan' = [scan EXCEPT !.i = @ + 1]
  /\ UNCHANGED <<clivars, bvars, qvars, cfg, sorted_vars, rename_map, ob>>
  /\ tick' = ~tick

\* discover_variables: a line whose segments are scanned
DiscoverScan ==
  /\ pc = "discover"
  /\ scan.i <= Len(Lines(source))
  /\ ~VmIsMatch(RE_IGNORE_ANNOTATION, ScanLine)
  /\ scan.skip_next = 0
  /\ ~VmIsMatch(RE_COMMENT_LINE, ScanLine)
  /\ ~VmIsMatch(RE_BLANK_LINE, ScanLine)
  /\ scan' = [scan EXCEPT !.i = @ + 1, !.vars = @ \cup LineNames(ScanLine)]
  /\ UNCHANGED <<clivars, bvars, qvars, cfg, sorted_vars, rename_map, ob>>
  /\ tick' = ~tick

\* obfuscate_lines at the line k of the flattened lines
ObAt(k, out) ==
  [line |-> k, var |-> 1, rule |-> 1, iter |-> 0,
   s |-> IF k <= Len(lines) THEN lines[k] \o <<NL>> ELSE <<>>, out |-> out]

\* discover_variables returns; build_rename_map and Obfuscator::new
DiscoverEnd ==
  /\ pc = "discover"
  /\ scan.i > Len(Lines(source))
  /\ \E sv \in {FilterSort(scan.vars, cfg.ignore_patterns)} :
       /\ sorted_vars' = sv
       /\ rename_map' = build_rename_map(sv, cfg.var_prefix)
  /\ ob' = ObAt(1, <<>>)
  /\ pc' = "obfuscate"
  /\ UNCHANGED <<env, err, input, source, lines, result, outfile, bvars,
                 qvars, cfg, scan>>
  /\ tick' = ~tick

\* the rules of the variable obfuscate_line is at
Patterns == compile(sorted_vars[ob.var], rename_map[sorted_vars[ob.var]])

\* VarPatterns::apply: a rule that is applied once
ObfuscateRule ==
  /\ pc = "obfuscate"
  /\ ob.line <= Len(lines)
  /\ ob.var <= Len(sorted_vars)
  /\ ob.rule <= Len(Patterns)
  /\ ~Patterns[ob.rule].looped
  /\ ob' = [ob EXCEPT !.s = VmReplace(Patterns[ob.rule].re, ob.s,
                                      Patterns[ob.rule].tpl),
                      !.rule = @ + 1]
  /\ UNCHANGED <<clivars, bvars, qvars, cfg, scan, sorted_vars, rename_map>>
  /\ tick' = ~tick

\* VarPatterns::apply: one iteration of the loop of a looped rule; the loop
\* is left when the replacement changes nothing
ObfuscateLoop ==
  /\ pc = "obfuscate"
  /\ ob.line <= Len(lines)
  /\ ob.var <= Len(sorted_vars)
  /\ ob.rule <= Len(Patterns)
  /\ Patterns[ob.rule].looped
  /\ ob.iter < MaxRuleLoop
  /\ \E next \in {VmReplace(Patterns[ob.rule].re, ob.s, Patterns[ob.rule].tpl)} :
       ob' = IF next = ob.s
             THEN [ob EXCEPT !.rule = @ + 1, !.iter = 0]
             ELSE [ob EXCEPT !.s = next, !.iter = @ + 1]
  /\ UNCHANGED <<clivars, bvars, qvars, cfg, scan, sorted_vars, rename_map>>
  /\ tick' = ~tick

\* VarPatterns::apply: the loop of a looped rule has run all its iterations
ObfuscateLoopEnd ==
  /\ pc = "obfuscate"
  /\ ob.line <= Len(lines)
  /\ ob.var <= Len(sorted_vars)
  /\ ob.rule <= Len(Patterns)
  /\ Patterns[ob.rule].looped
  /\ ob.iter = MaxRuleLoop
  /\ ob' = [ob EXCEPT !.rule = @ + 1, !.iter = 0]
  /\ UNCHANGED <<clivars, bvars, qvars, cfg, scan, sorted_vars, rename_map>>
  /\ tick' = ~tick

\* obfuscate_line: the next variable's patterns
ObfuscateNextVar ==
  /\ pc = "obfuscate"
  /\ ob.line <= Len(lines)
  /\ ob.var <= Len(sorted_vars)
  /\ ob.rule > Len(Patterns)
  /\ ob' = [ob EXCEPT !.var = @ + 1, !.rule = 1]
  /\ UNCHANGED <<clivars, bvars, qvars, cfg, scan, sorted_vars, rename_map>>
  /\ tick' = ~tick

\* obfuscate_line returns; obfuscate_lines goes on to the next line
ObfuscateNextLine ==
  /\ pc = "obfuscate"
  /\ ob.line <= Len(lines)
  /\ ob.var > Len(sorted_vars)
  /\ ob' = ObAt(ob.line + 1, Append(ob.out, StripSentinel(ob.s)))
  /\ UNCHANGED <<clivars, bvars, qvars, cfg, scan, sorted_vars, rename_map>>
  /\ tick' = ~tick

\* obfuscate_lines returns
ObfuscateEnd ==
  /\ pc = "obfuscate"
  /\ ob.line > Len(lines)
  /\ lines' = ob.out
  /\ pc' = "join"
  /\ UNCHANGED <<env, err, input, source, result, outfile, bvars, qvars,
                 ovars>>
  /\ tick' = ~tick

\* minify, phase 3, in a run with -O
FlattenObf ==
  /\ pc = "flatten"
  /\ env.do_obfuscate
  /\ lines' = flatten_lines(lines)
  /\ pc' = "patterns"
  /\ UNCHANGED <<env, err, input, source, result, outfile, bvars, qvars,
                 ovars>>
  /\ tick' = ~tick

\* main: the -V patterns merged into the -I list
MergedIgnore ==
  IF env.exclude_vars = <<>> THEN env.ignore_vars
  ELSE JoinWith(<<env.ignore_vars>> \o env.exclude_vars, <<",">>)

\* minify: the ignore patterns compile; discover_variables starts
ParseIgnore ==
  /\ pc = "patterns"
  /\ \E parsed \in {parse_ignore_patterns(MergedIgnore)} :
       /\ parsed.some
       /\ cfg' = [var_prefix |-> <<"a">>, ignore_patterns |-> parsed.val]
  /\ scan' = [i |-> 1, vars |-> {}, skip_next |-> 0]
  /\ pc' = "discover"
  /\ UNCHANGED <<env, err, input, source, lines, result, outfile, bvars,
                 qvars, sorted_vars, rename_map, ob>>
  /\ tick' = ~tick

\* minify: an ignore pattern does not compile
ParseIgnoreFail ==
  /\ pc = "patterns"
  /\ ~parse_ignore_patterns(MergedIgnore).some
  /\ pc' = "failed"
  /\ err' = "ignore pattern"
  /\ UNCHANGED <<env, input, source, lines, result, outfile, bvars, qvars,
                 ovars>>
  /\ tick' = ~tick

\* no file system and no command line
IdleEnv == Env(<<>>, {}, MainPath, FALSE, FALSE)

\* the patterns parse_ignore_patterns compiles from the default of -I,
\* "usage,args": ^(?:usage)$ and ^(?:args)$
DefaultIgnore ==
  << <<Bol>> \o Lit(<<"u","s","a","g","e">>) \o <<Eol>>, <<Bol>> \o Lit(<<"a","r","g","s">>) \o <<Eol>> >>

\* the patterns parse_ignore_patterns compiles from "*": .*
IgnoreAll == << <<Star(<<AnyCh>>)>> >>

ObfConfigs == {[var_prefix |-> <<"a">>, ignore_patterns |-> DefaultIgnore]}

DiscoverConfigs ==
  {[var_prefix |-> <<"a">>, ignore_patterns |-> ip] :
     ip \in {<<>>, DefaultIgnore, IgnoreAll}}

\* the lines of the sources discover_variables is run on
DiscoverLines ==
  {<<"#"," ","o","b","f","u","s"," ","i","g","n","o","r","e"," ","v","a","r","i","a","b","l","e">>,
   <<"a","b","=","1",";"," ","r","e","a","d"," ","-","r"," ","z","z">>,
   <<"l","o","c","a","l"," ","a","b","c"," ","b",";"," ","f","o","r"," ","b"," ","i","n"," ","x">>,
   <<"a","r","g","s","=","1",";"," ","(","("," ","+","+","a","a"," ",")",")">>,
   <<"#"," ","c">>}

\* the most lines of such a source
MaxDiscoverLines == 4

DiscoverSources ==
  {FileText(ls) : ls \in SeqsUpTo(DiscoverLines, MaxDiscoverLines)}

\* the sources obfuscated
ObfScripts ==
  { <<ManyAssignments>>,
    <<<<"p","a","t","h","=","1">>, <<"e","c","h","o"," ","$","{","_","p","a","t","h","[","0","]","}"," ","$","{","x",":","-","_","p","a","t","h","}"," ","$","(","(","p","a","t","h","_","x","+","1",")",")">>>>,
    <<<<"x","a","0","=","1">>, <<"a","0","=","2">>, <<"e","c","h","o"," ","$","x","a","0"," ","$","a","0">>>>,
    <<<<"#"," ","o","b","f","u","s"," ","i","g","n","o","r","e"," ","v","a","r","i","a","b","l","e">>, <<"k","e","e","p","=","1">>, <<"#"," ","c">>, <<"f","o","o","=","2">>, <<"e","c","h","o"," ","$","k","e","e","p"," ","$","f","o","o">>>>,
    <<<<"l","o","c","a","l"," ","f","o","o","=","1">>, <<"e","c","h","o"," ","$","f","o","o">>>>,
    <<<<"f","o","o","=","1">>, <<"e","c","h","o"," ","$","(","(","f","o","o","+","1",")",")">>>>,
    <<<<"f","o","o","=","1">>, <<"e","c","h","o"," ","'","f","o","o","=","2","'"," ","$","f","o","o">>>>,
    <<<<"l","o","c","a","l"," ","a"," ","f","l","a","g","s">>, <<"I","F","S","=","'","|","'"," ","r","e","a","d"," ","-","r","a"," ","f","l","a","g","s"," ","<","<","<"," ","\"","$","a","\"">>>>,
    <<<<"r","e","a","d"," ","-","r"," ","r">>>>,
    <<<<"a","l","i","a","s","=","1">>, <<"a","0","=","2">>, <<"e","c","h","o"," ","$","a","l","i","a","s"," ","$","a","0">>>>,
    <<<<"p","a","t","h","=","1">>, <<"_","p","a","t","h","=","2">>, <<"e","c","h","o"," ","$","{","_","p","a","t","h","}"," ","$","{","p","a","t","h","}">>>> }

ObfSources == {FileText(ls) : ls \in ObfScripts}

\* outside a run with -O
NoCfg == [var_prefix |-> <<>>, ignore_patterns |-> <<>>]
NoScan == [i |-> 0, vars |-> {}, skip_next |-> 0]
NoOb ==
  [line |-> 0, var |-> 0, rule |-> 0, iter |-> 0, s |-> <<>>, out |-> <<>>]

(***************************************************************************)
(* Specifications                                                          *)
(***************************************************************************)
\* one CLI run
Init ==
  /\ env \in Scenarios
  /\ pc = "start"
  /\ err = ""
  /\ input = <<>>
  /\ source = <<>>
  /\ lines = <<>>
  /\ result = <<>>
  /\ outfile = None
  /\ stack = <<>>
  /\ seen = {}
  /\ reads = <<>>
  /\ deepest = 0
  /\ qline = <<>>
  /\ qres = None
  /\ tick = FALSE
  /\ cfg = NoCfg
  /\ scan = NoScan
  /\ sorted_vars = <<>>
  /\ rename_map = <<>>
  /\ ob = NoOb

Next ==
  \/ ReadInput
  \/ ReadInputFail
  \/ NoBundle
  \/ BundleCall
  \/ ScanQuoted
  \/ ScanAnnotation
  \/ ScanSkip
  \/ ScanInline
  \/ ScanReadFail
  \/ ScanPlain
  \/ DepthFail
  \/ Return
  \/ BundleReturn
  \/ Strip
  \/ Flatten
  \/ FlattenObf
  \/ ParseIgnore
  \/ ParseIgnoreFail
  \/ DiscoverAnnotation
  \/ DiscoverSkip
  \/ DiscoverComment
  \/ DiscoverScan
  \/ DiscoverEnd
  \/ ObfuscateRule
  \/ ObfuscateLoop
  \/ ObfuscateLoopEnd
  \/ ObfuscateNextVar
  \/ ObfuscateNextLine
  \/ ObfuscateEnd
  \/ Join
  \/ Write
  \/ WriteFail

Spec == Init /\ [][Next]_vars

\* the CLI run has not ended
Running ==
  pc \in {"start", "minify", "bundle", "strip", "flatten", "patterns",
          "discover", "obfuscate", "join", "write"}

\* a step of a run that has not ended
Advance == Running /\ tick' = ~tick

\* the process is scheduled until the run ends
FairSpec == Spec /\ WF_tick(Advance)

\* QuoteTracker::line_has_open_quote applied to a line
QuoteApply ==
  /\ pc = "idle"
  /\ ~qres.some
  /\ LET r == line_has_open_quote(qline)
     IN  qres' = Some(r)
  /\ UNCHANGED <<clivars, bvars, qline, tick, ovars>>

InitQuote ==
  /\ qline \in QuoteLines
  /\ qres = None
  /\ env = IdleEnv
  /\ pc = "idle"
  /\ err = ""
  /\ input = <<>>
  /\ source = <<>>
  /\ lines = <<>>
  /\ result = <<>>
  /\ outfile = None
  /\ stack = <<>>
  /\ seen = {}
  /\ reads = <<>>
  /\ deepest = 0
  /\ tick = FALSE
  /\ cfg = NoCfg
  /\ scan = NoScan
  /\ sorted_vars = <<>>
  /\ rename_map = <<>>
  /\ ob = NoOb

NextQuote == QuoteApply

SpecQuote == InitQuote /\ [][NextQuote]_vars

\* flatten_line applied to a line
FlattenLineApply ==
  /\ pc = "flatten_line"
  /\ ~qres.some
  /\ \E r \in {flatten_line(qline)} : qres' = Some(r)
  /\ UNCHANGED <<clivars, bvars, qline, tick, ovars>>

\* the lines flatten_line is applied to
MaxFlattenLen == 6
FlattenAlphabet == {SQ, DQ, BS, " ", "#"}
FlattenInputs == SeqsUpTo(FlattenAlphabet, MaxFlattenLen)

InitFlattenLine ==
  /\ qline \in FlattenInputs
  /\ qres = None
  /\ env = IdleEnv
  /\ pc = "flatten_line"
  /\ err = ""
  /\ input = <<>>
  /\ source = <<>>
  /\ lines = <<>>
  /\ result = <<>>
  /\ outfile = None
  /\ stack = <<>>
  /\ seen = {}
  /\ reads = <<>>
  /\ deepest = 0
  /\ tick = FALSE
  /\ cfg = NoCfg
  /\ scan = NoScan
  /\ sorted_vars = <<>>
  /\ rename_map = <<>>
  /\ ob = NoOb

NextFlattenLine == FlattenLineApply

SpecFlattenLine == InitFlattenLine /\ [][NextFlattenLine]_vars

\* minify with -O at the obfuscation branch: the source is stripped and
\* flattened, the variables are discovered and the lines obfuscated
InitObf ==
  /\ source \in ObfSources
  /\ cfg \in ObfConfigs
  /\ lines = flatten_lines(strip_lines(source))
  /\ pc = "discover"
  /\ scan = [i |-> 1, vars |-> {}, skip_next |-> 0]
  /\ sorted_vars = <<>>
  /\ rename_map = <<>>
  /\ ob = NoOb
  /\ env = IdleEnv
  /\ err = ""
  /\ input = <<>>
  /\ result = <<>>
  /\ outfile = None
  /\ stack = <<>>
  /\ seen = {}
  /\ reads = <<>>
  /\ deepest = 0
  /\ qline = <<>>
  /\ qres = None
  /\ tick = FALSE

NextObf ==
  \/ DiscoverAnnotation
  \/ DiscoverSkip
  \/ DiscoverComment
  \/ DiscoverScan
  \/ DiscoverEnd
  \/ ObfuscateRule
  \/ ObfuscateLoop
  \/ ObfuscateLoopEnd
  \/ ObfuscateNextVar
  \/ ObfuscateNextLine
  \/ ObfuscateEnd

SpecObf == InitObf /\ [][NextObf]_vars

\* discover_variables on a source
InitDiscover ==
  /\ source \in DiscoverSources
  /\ cfg \in DiscoverConfigs
  /\ lines = <<>>
  /\ pc = "discover"
  /\ scan = [i |-> 1, vars |-> {}, skip_next |-> 0]
  /\ sorted_vars = <<>>
  /\ rename_map = <<>>
  /\ ob = NoOb
  /\ env = IdleEnv
  /\ err = ""
  /\ input = <<>>
  /\ result = <<>>
  /\ outfile = None
  /\ stack = <<>>
  /\ seen = {}
  /\ reads = <<>>
  /\ deepest = 0
  /\ qline = <<>>
  /\ qres = None
  /\ tick = FALSE

NextDiscover ==
  \/ DiscoverAnnotation
  \/ DiscoverSkip
  \/ DiscoverComment
  \/ DiscoverScan
  \/ DiscoverEnd

SpecDiscover == InitDiscover /\ [][NextDiscover]_vars

(***************************************************************************)
(* Reference notions the properties are stated with                        *)
(***************************************************************************)
\* the canonical path of the file the directive at the current line
\* resolves to
Target == canonicalize(Resolved.val)

\* the innermost call has called bundle_recursive on the content of a file
Inlines(canonical) ==
  stack' = Append(stack, Frame(env.files[canonical], canonical[1], Top.depth + 1))

\* bundle has returned or failed
BundleEnded == pc \notin {"start", "minify", "bundle"}

\* the entries of a come in b in the same order
RECURSIVE IsSubseq(_, _)
IsSubseq(a, b) ==
  IF a = <<>> THEN TRUE
  ELSE IF b = <<>> THEN FALSE
  ELSE IF Head(a) = Head(b) THEN IsSubseq(Tail(a), Tail(b))
  ELSE IsSubseq(a, Tail(b))

\* How bash reads a script line by line: as code, inside a heredoc body
\* (up to the line that is the delimiter), or inside a single- or
\* double-quoted string left open by an earlier line.
RefCode == [mode |-> "code", delim |-> <<>>]

\* the mode after a line read in mode m
RefLineStep(m, line) ==
  IF m.mode = "heredoc"
  THEN IF Trim(line) = m.delim THEN RefCode ELSE m
  ELSE LET st == FoldChars(QuoteStep, line, 1, Len(line),
                           QuoteState(m.mode = "sq", m.mode = "dq"))
           h == IF m.mode = "code" /\ ~IsMatch(strip_RE_COMMENT, line)
                THEN strip_heredoc_outside_quotes(line) ELSE None
       IN  IF h.some THEN [mode |-> "heredoc", delim |-> h.val]
           ELSE IF st.in_single THEN [mode |-> "sq", delim |-> <<>>]
           ELSE IF st.in_double THEN [mode |-> "dq", delim |-> <<>>]
           ELSE RefCode

\* the mode line i of ls is read in
RECURSIVE RefModeAt(_, _)
RefModeAt(ls, i) ==
  IF i = 1 THEN RefCode ELSE RefLineStep(RefModeAt(ls, i - 1), ls[i - 1])

\* line i of ls lies inside a quoted string or a heredoc body
InLiteral(ls, i) == RefModeAt(ls, i).mode # "code"

\* line i of ls is a line of a heredoc body
InHeredocBody(ls, i) ==
  /\ RefModeAt(ls, i).mode = "heredoc"
  /\ Trim(ls[i]) # RefModeAt(ls, i).delim

\* the heredoc body lines of ls, in order
RECURSIVE HeredocBodyFrom(_, _)
HeredocBodyFrom(ls, i) ==
  IF i > Len(ls) THEN <<>>
  ELSE (IF InHeredocBody(ls, i) THEN <<ls[i]>> ELSE <<>>)
       \o HeredocBodyFrom(ls, i + 1)

HeredocBodyLines(ls) == HeredocBodyFrom(ls, 1)

\* The quote state after a left-to-right scan that carries the parity of
\* the run of backslashes ending right before the character: a quote
\* toggles its flag when it is not inside the other quote type and, outside
\* single quotes, the run before it is even.
RECURSIVE RefQuoteScan(_, _, _, _, _)
RefQuoteScan(chars, i, in_single, in_double, odd) ==
  IF i > Len(chars) THEN <<in_single, in_double>>
  ELSE LET c == chars[i]
           even == ~odd
           toggle_single == c = SQ /\ ~in_double /\ (in_single \/ even)
           toggle_double == c = DQ /\ ~in_single /\ even
       IN  RefQuoteScan(chars, i + 1,
                        in_single # toggle_single,
                        in_double # toggle_double,
                        c = BS /\ ~odd)

RefQuote(line) == RefQuoteScan(line, 1, FALSE, FALSE, FALSE)

\* a target that cannot be resolved: dynamic, a path traversal, absolute,
\* or no file in the current directory or a search path
NoCandidate(target, current_dir) ==
  \A d \in {current_dir} \cup {env.search_paths[k] : k \in 1..Len(env.search_paths)} :
    \A e \in 1..Len(EXTENSIONS) :
      canonicalize(<<d, strip_import_prefix(target) \o EXTENSIONS[e]>>)
        \notin DOMAIN env.files

Unresolvable(target, current_dir) ==
  \/ ContainsCh(target, "$")
  \/ ContainsStr(target, <<".", ".">>)
  \/ StartsWith(target, <<"/">>)
  \/ NoCandidate(target, current_dir)

(***************************************************************************)
(* Properties                                                              *)
(***************************************************************************)
C1_Step ==
  /\ (AtDirective /\ Top.brace_depth = 0 /\ ~Top.force_next /\ Target \in seen)
       => /\ stack' = SetTop([Top EXCEPT !.idx = Top.idx + 1])
          /\ reads' = reads
          /\ seen' = seen
  /\ (AtDirective /\ Top.brace_depth > 0)
       => IF Target \in env.unreadable THEN pc' = "failed"
          ELSE /\ Inlines(Target)
               /\ Len(reads') = Len(reads) + 1
               /\ reads'[Len(reads')].file = Target
  /\ (pc = "bundle" /\ stack' # <<>> /\ Len(stack') < Len(stack))
       => stack'[Len(stack')].output
            = stack[Len(stack) - 1].output \o Top.output
  /\ \A j \in 1..Len(reads') :
       (reads'[j].brace_depth = 0 /\ ~reads'[j].force_next)
         => \A i \in 1..(j - 1) : reads'[i].file # reads'[j].file

\* C1: while a file is scanned, a resolvable directive at brace depth 0
\* that no annotation precedes and whose canonical target is in the visited
\* set emits nothing and reads nothing, so no target is inlined a second
\* time at top level; a resolvable directive at brace depth > 0 is always
\* inlined, visited or not: its file is read and scanned, and what the scan
\* returns is appended to the output.
C1_DedupAtTopLevelOnly == [][C1_Step]_vars

\* the same file was skipped at top level and inlined again inside a
\* function body
C1_Witness ==
  /\ pc = "strip"
  /\ CountOf(Lines(input), L_import_lib) = 3
  /\ CountOf(Lines(source), L_echo_lib) = 2
  /\ \E i, j \in 1..Len(reads) :
       /\ i < j
       /\ reads[i].file = reads[j].file
       /\ reads[j].brace_depth > 0
       /\ ~reads[j].force_next

\* C2: when a.sh imports b.sh at top level and b.sh imports a.sh at top
\* level, bundling a.sh ends without reaching the depth limit, and the
\* output holds the content of a.sh exactly once and that of b.sh exactly
\* once.
C2_CycleOnceEach ==
  (env = CycleEnv /\ BundleEnded)
    => /\ err = ""
       /\ deepest <= MAX_DEPTH
       /\ CountOf(Lines(source), L_echo_a) = 1
       /\ CountOf(Lines(source), L_echo_b) = 1

C3_DepthSafe ==
  /\ \A k \in 1..Len(stack) : stack[k].depth = k - 1
  /\ Len(stack) <= MAX_DEPTH + 2
  /\ Scanning => Top.depth <= MAX_DEPTH
  /\ deepest <= MAX_DEPTH + 1
  /\ err = "depth" => (pc = "failed" /\ deepest = MAX_DEPTH + 1)
  /\ (BundleEnded /\ deepest = MAX_DEPTH + 1) => err = "depth"
  /\ (BundleEnded /\ err \notin {"depth", "read import", "read input"})
       => deepest <= MAX_DEPTH

\* C3: on every import graph, cycles through function-scoped or
\* force-annotated imports included, bundle ends: with the bundled source
\* when no chain of nested inlines goes deeper than MAX_DEPTH levels below
\* the input file (level 0), with the depth error otherwise; no file is
\* scanned at a level above the limit.
C3_BundleTerminates == <>BundleEnded /\ []C3_DepthSafe

\* a file that imports itself inside a function body ran into the limit
C3_Witness ==
  /\ env = BundleEnv(<<L_func_open, L_import_main>>)
  /\ pc = "failed"
  /\ err = "depth"
  /\ deepest = MAX_DEPTH + 1

C4_Step ==
  /\ (Scanning /\ Top.open_quote_char = "" /\ IsAnnotation(CurLine))
       => stack' = SetTop([Top EXCEPT !.force_next = TRUE,
                                      !.idx = Top.idx + 1])
  /\ (AtDirective /\ Top.force_next)
       => IF Target \in env.unreadable THEN pc' = "failed"
          ELSE Inlines(Target)
  /\ \A k \in 1..Len(stack') :
       stack'[k].force_next
         => /\ stack'[k].idx > 1
            /\ IsAnnotation(stack'[k].lines[stack'[k].idx - 1])

\* C4: the annotation acts on the directive of the next line only: that
\* directive is inlined even at top level with a visited target, the
\* annotation line adds nothing to the output, and force_next is set only
\* while the line scanned last is the annotation, so after any other line
\* no later directive is affected.
C4_ForceNextLineOnly == [][C4_Step]_vars

\* a visited target was inlined again at top level under the annotation
C4_Witness ==
  /\ BundleEnded
  /\ err = ""
  /\ \E i, j \in 1..Len(reads) :
       /\ i < j
       /\ reads[i].file = reads[j].file
       /\ reads[j].brace_depth = 0
       /\ reads[j].force_next

C5_Step ==
  (Scanning /\ InLiteral(Top.lines, Top.idx))
    => /\ Len(stack') = Len(stack)
       /\ stack'[Len(stack)].output = Append(Top.output, CurLine)
       /\ stack'[Len(stack)].idx = Top.idx + 1
       /\ reads' = reads
       /\ seen' = seen

\* C5: in the Bundle scan, a line inside a multi-line quoted string or a
\* heredoc body is emitted unchanged and never resolved as a directive.
C5_LiteralLinesPassThrough == [][C5_Step]_vars

C6_Step ==
  (/\ Scanning
   /\ Top.open_quote_char = ""
   /\ ~IsAnnotation(CurLine)
   /\ DirectiveTarget(CurLine).some
   /\ Unresolvable(DirectiveTarget(CurLine).val, Top.current_dir))
    => /\ pc' = "bundle"
       /\ Len(stack') = Len(stack)
       /\ stack'[Len(stack)].output = Append(Top.output, CurLine)
       /\ stack'[Len(stack)].idx = Top.idx + 1
       /\ reads' = reads
       /\ seen' = seen

\* C6: a directive whose target contains `$` or `..`, is absolute, or names
\* no file in the current directory or a search path does not fail the
\* bundle: its line is emitted as it is, no file is read and the visited
\* set stays as it was.
C6_UnresolvableKept == [][C6_Step]_vars

\* the four kinds of unresolvable directive went through unchanged
C6_Witness ==
  /\ env = UnresolvableEnv
  /\ pc = "strip"
  /\ source = JoinNL(UnresolvableLines)
  /\ reads = <<>>
  /\ seen = {}

\* C7: line_has_open_quote returns the state a left-to-right scan reaches
\* in which a quote toggles its flag only when it is not inside the other
\* quote type and, outside single quotes, an even number of backslashes
\* precedes it; inside single quotes a `'` always closes the string.
C7_QuoteScanParity == qres.some => qres.val = RefQuote(qline)

\* a double quote after two backslashes opened a string
C7_Witness ==
  /\ qres = Some(<<FALSE, TRUE>>)
  /\ Len(qline) >= 3
  /\ SubSeq(qline, 1, 3) = <<BS, BS, DQ>>

\* C8: strip_lines run on the newline-joined output of strip_lines returns
\* the same lines.
C8_StripIdempotent ==
  pc = "flatten" => strip_lines(JoinNL(lines)) = lines

\* C9: Strip emits every heredoc body line of its input as it is and in
\* order; it removes and splits none.
C9_StripKeepsHeredocBody ==
  pc = "flatten" => IsSubseq(HeredocBodyLines(Lines(source)), lines)

\* C10: every heredoc body line of the source comes out of the pipeline
\* (Strip, Flatten, Join and its keyword fix-up) as it is.
C10_PipelineKeepsHeredocBody ==
  pc = "done" => IsSubseq(HeredocBodyLines(Lines(source)), Lines(outfile.val))

\* The lines of ls from line i on that lie in heredoc state, when Start(l)
\* is the delimiter a line l opens a heredoc with and the state ends only
\* at a line equal to the delimiter.
RECURSIVE ExactHeredocFrom(_, _, _, _)
ExactHeredocFrom(Start(_), ls, i, delim) ==
  IF i > Len(ls) THEN <<>>
  ELSE IF delim.some
  THEN <<ls[i]>> \o ExactHeredocFrom(Start, ls, i + 1,
                                     IF ls[i] = delim.val THEN None ELSE delim)
  ELSE ExactHeredocFrom(Start, ls, i + 1, Start(ls[i]))

\* the delimiter of the heredoc a line opens in the loop of flatten_lines
FlattenHeredocStart(line) ==
  LET Opened(cap) == IF cap.ok THEN Some(Cap(cap, line, 1)) ELSE None
  IN  Opened(Search(flatten_RE_HEREDOC, line))

\* the delimiter of the heredoc a line opens in the loop of join_newlines
JoinHeredocStart(line) == join_heredoc_outside_quotes(TrimStart(line))

\* C11: in Strip, Flatten and Join heredoc state ends only at a line that
\* is exactly the delimiter, so each phase passes through, unchanged and in
\* order, every line between the line that opens a heredoc and the first
\* later line equal to the delimiter; a line that is the delimiter only
\* after trimming is one of them.
C11_HeredocEndsAtExactDelimiter ==
  /\ pc = "flatten" =>
       /\ IsSubseq(ExactHeredocFrom(StripHeredocStart,
                                    Lines(StripNormalize(source)), 1, None),
                   lines)
       /\ IsSubseq(ExactHeredocFrom(FlattenHeredocStart, lines, 1, None),
                   flatten_lines(lines))
  /\ pc = "join" =>
       IsSubseq(ExactHeredocFrom(JoinHeredocStart, lines, 1, None),
                Lines(JoinLoop(Lines(JoinNL(lines)), 1, <<>>)))

\* C12: the text join_newlines returns holds none of `then;`, `do;` and
\* `else;`, whatever stands before the keyword letters.
C12_NoKeywordSemicolon ==
  pc = "write" =>
    /\ ~ContainsStr(result, <<"t","h","e","n",";">>)
    /\ ~ContainsStr(result, <<"d","o",";">>)
    /\ ~ContainsStr(result, <<"e","l","s","e",";">>)

\* the number of places the text p occurs at in s
CountStr(s, p) ==
  Cardinality({i \in 1..(Len(s) - Len(p) + 1) : SubSeq(s, i, i + Len(p) - 1) = p})

\* the line breaks of ls that lie inside a quoted string: the ones before a
\* line read inside a string an earlier line left open
BreaksInQuotes(ls) ==
  {i \in 2..Len(ls) : RefModeAt(ls, i).mode \in {"sq", "dq"}}

\* C13: Join replaces each line break inside a quoted string by one `$'\n'`
\* concatenation, so its output holds as many of them as its input has line
\* breaks inside strings, and an input that is one string statement comes
\* out without a newline.
C13_QuotedNewlinesPreserved ==
  pc = "write" =>
    /\ CountStr(result, <<"$", SQ, BS, "n", SQ>>) = Cardinality(BreaksInQuotes(lines))
    /\ (Len(lines) >= 2 /\ BreaksInQuotes(lines) = 2..Len(lines)
          => ~ContainsCh(result, NL))

\* the position p of the line is inside single quotes
InSingleQuotes(line, p) ==
  FoldChars(SplitStep, line, 1, p - 1,
            [segments |-> <<>>, start |-> 1, in_single |-> FALSE,
             in_double |-> FALSE]).in_single

\* the name v stands at position p of the line as a whole word
WordAt(line, p, v) ==
  /\ p + Len(v) - 1 <= Len(line)
  /\ SubSeq(line, p, p + Len(v) - 1) = v
  /\ ~IsWordAt(line, p - 1)
  /\ ~IsWordAt(line, p + Len(v))

\* the position p of the line is inside (( without a ) before it
InArithmetic(line, p) ==
  \E q \in 1..(p - 2) :
    /\ line[q] = "(" /\ line[q + 1] = "("
    /\ \A j \in (q + 2)..(p - 1) : line[j] # ")"

\* a binding or reference of the name v at position p of the line, outside
\* single quotes: v=, local v, $v, ${v, an array subscript, arithmetic
Reference(line, p, v) ==
  /\ WordAt(line, p, v)
  /\ ~InSingleQuotes(line, p)
  /\ \/ p + Len(v) <= Len(line) /\ line[p + Len(v)] = "="
     \/ p > 6 /\ SubSeq(line, p - 6, p - 1) = <<"l","o","c","a","l"," ">>
     \/ p > 1 /\ line[p - 1] \in {"$", "["}
     \/ p > 2 /\ line[p - 2] = "$" /\ line[p - 1] = "{"
     \/ InArithmetic(line, p)

\* C14: after the obfuscation of the lines no binding or reference of the
\* original name of a discovered variable remains outside single quotes.
C14_RenamedEverywhere ==
  pc = "join" =>
    \A k \in 1..Len(lines) : \A i \in 1..Len(sorted_vars) :
      \A p \in 1..Len(lines[k]) : ~Reference(lines[k], p, sorted_vars[i])

\* the single-quoted spans of a line, one character at a time: cur is the
\* text of the span being read
QuoteSpanStep(st, line, i) ==
  CASE line[i] = SQ /\ st.in_single ->
         [st EXCEPT !.in_single = FALSE, !.spans = Append(@, st.cur)]
    [] line[i] = SQ /\ ~st.in_double ->
         [st EXCEPT !.in_single = TRUE, !.cur = <<>>]
    [] line[i] = DQ /\ ~st.in_single -> [st EXCEPT !.in_double = ~@]
    [] OTHER ->
         IF st.in_single THEN [st EXCEPT !.cur = Append(@, line[i])] ELSE st

\* the texts of the complete single-quoted spans of a line, in order
SingleQuotedSpans(line) ==
  FoldChars(QuoteSpanStep, line, 1, Len(line),
            [spans |-> <<>>, cur |-> <<>>, in_single |-> FALSE,
             in_double |-> FALSE]).spans

\* C15: while a line is obfuscated, the text of each of its complete
\* single-quoted spans stays what it was in the line given to obfuscate_line.
C15_SingleQuotedUnchanged ==
  pc = "obfuscate" /\ ob.line <= Len(lines) =>
    SingleQuotedSpans(ob.s) = SingleQuotedSpans(lines[ob.line])

\* the option words of a command line: its words that start with -
OptionWords(line) ==
  SelectSeq(split_whitespace(line), LAMBDA w : w[1] = "-")

\* C17: while a read command is obfuscated, its option words stay what they
\* were in the line given to obfuscate_line; only operands are renamed.
C17_ReadOptionsKept ==
  (/\ pc = "obfuscate"
   /\ ob.line <= Len(lines)
   /\ \E k \in DOMAIN split_whitespace(lines[ob.line]) :
        split_whitespace(lines[ob.line])[k] = <<"r","e","a","d">>)
  => OptionWords(StripSentinel(ob.s)) = OptionWords(lines[ob.line])

\* the obfuscated form of an assignment to the name v, under the names and
\* the rename map of the run
AssignmentOf(v) == obfuscate_line(sorted_vars, rename_map, v \o <<"=","1">>)

\* C18: after the obfuscation, the assignments to two distinct discovered
\* variables obfuscate to two distinct lines: no generated name is rewritten
\* into the name of another variable.
C18_DistinctNames ==
  pc = "join" =>
    \A i \in 1..Len(sorted_vars) : \A j \in 1..Len(sorted_vars) :
      i < j => AssignmentOf(sorted_vars[i]) # AssignmentOf(sorted_vars[j])

\* the identifiers of a line: its maximal runs of [A-Za-z0-9_], in order
IdentStep(st, s, i) ==
  IF s[i] \notin WordCh
  THEN (IF st.word = <<>> THEN st
        ELSE [words |-> Append(st.words, st.word), word |-> <<>>])
  ELSE [st EXCEPT !.word = Append(@, s[i])]

IdentWords(s) ==
  FoldChars(IdentStep, s \o <<" ">>, 1, Len(s) + 1,
            [words |-> <<>>, word |-> <<>>]).words

\* the name v occurs inside the identifier w as a proper substring
ProperlyInside(v, w) == Len(v) < Len(w) /\ ContainsStr(w, v)

\* a step of the rules of one variable v1 on a line leaves alone every
\* identifier that stands where the line given to obfuscate_line has an
\* identifier with v1 properly inside, renamed before or not
RuleKeepsLongerNames ==
  (pc = "obfuscate" /\ pc' = "obfuscate" /\ ob.line <= Len(lines)
   /\ ob'.line = ob.line /\ ob'.var = ob.var /\ ob.var <= Len(sorted_vars))
  => \E orig \in {IdentWords(lines[ob.line])} :
     \E before \in {IdentWords(ob.s)} :
     \E after \in {IdentWords(ob'.s)} :
       /\ Len(before) = Len(orig)
       /\ Len(after) = Len(orig)
       /\ \A k \in 1..Len(orig) :
            ProperlyInside(sorted_vars[ob.var], orig[k]) => after[k] = before[k]

\* C16: the rules of a discovered variable v1 change no occurrence of an
\* identifier v2 that has v1 properly inside, and not the result of renaming
\* v2 either.
C16_WordBoundary == [][RuleKeepsLongerNames]_vars

\* C19: the list discover_variables returns has no duplicate names, each
\* name is at least as long as the next one, names of equal length ascend
\* alphabetically; hence a name with another name properly inside comes
\* first and gets the smaller index in the rename map.
C19_SortedByLengthThenName ==
  pc = "obfuscate" =>
    /\ \A i \in 1..Len(sorted_vars) : \A j \in 1..Len(sorted_vars) :
         i < j =>
           /\ sorted_vars[i] # sorted_vars[j]
           /\ Len(sorted_vars[i]) >= Len(sorted_vars[j])
           /\ Len(sorted_vars[i]) = Len(sorted_vars[j])
                => StrLess(sorted_vars[i], sorted_vars[j])
    /\ \A i \in 1..Len(sorted_vars) : \A j \in 1..Len(sorted_vars) :
         ProperlyInside(sorted_vars[j], sorted_vars[i]) => i < j
    /\ \A i \in 1..Len(sorted_vars) :
         rename_map[sorted_vars[i]] = cfg.var_prefix \o Decimal(i - 1)

\* discover_variables has returned names of equal length, and a name with
\* another of the names inside
C19_Witness ==
  /\ pc = "obfuscate"
  /\ \E i \in 1..Len(sorted_vars) : \E j \in 1..Len(sorted_vars) :
       i < j /\ Len(sorted_vars[i]) = Len(sorted_vars[j])
  /\ \E i \in 1..Len(sorted_vars) : \E j \in 1..Len(sorted_vars) :
       ProperlyInside(sorted_vars[j], sorted_vars[i])

\* the line k of the source is an ignore annotation
IsIgnoreAnnotation(k) == VmIsMatch(RE_IGNORE_ANNOTATION, Lines(source)[k])

\* the names the line k of the source binds: none for an annotation, a
\* comment or a blank line
BoundBy(k) ==
  IF \/ IsIgnoreAnnotation(k)
     \/ VmIsMatch(RE_COMMENT_LINE, Lines(source)[k])
     \/ VmIsMatch(RE_BLANK_LINE, Lines(source)[k])
  THEN {}
  ELSE LineNames(Lines(source)[k])

\* C20: the names found so far are those bound by the lines read that do
\* not directly follow an ignore annotation: an annotation hides exactly
\* the line after it.
C20_AnnotationHidesOneLine ==
  pc = "discover" =>
    scan.vars = UNION {BoundBy(k) : k \in {n \in 1..(scan.i - 1) :
                                             n = 1 \/ ~IsIgnoreAnnotation(n - 1)}}

\* the ignore list holds a pattern with an unclosed or unopened group
UnbalancedIgnore ==
  \E k \in DOMAIN NonEmptyParts(MergedIgnore) :
    CountOf(NonEmptyParts(MergedIgnore)[k], "(")
      # CountOf(NonEmptyParts(MergedIgnore)[k], ")")

\* the step the run is about to take meets one of the failures: the input
\* cannot be read, an ignore pattern does not compile, the import to inline
\* cannot be read, bundle_recursive is called above the depth limit
FailureAhead ==
  \/ pc = "start" /\ ~InputReadable
  \/ pc = "patterns" /\ MergedIgnore # <<"*">> /\ UnbalancedIgnore
  \/ pc = "bundle" /\ stack # <<>> /\ Top.depth > MAX_DEPTH
  \/ /\ AtDirective
     /\ ~ShouldDedup(Top.brace_depth, Top.force_next, Target)
     /\ Target \in env.unreadable

C21_Step ==
  /\ pc \notin {"done", "failed"}
  /\ FailureAhead => pc' = "failed"
  /\ pc' = "failed" => (err' # "" /\ outfile' = None)
  /\ outfile' # outfile =>
       /\ pc = "write" /\ pc' = "done"
       /\ outfile = None /\ err = ""

\* C21: the output file is written at most once, by the step that ends a
\* run all of whose phases succeeded; a run that cannot read its input,
\* compile its ignore patterns, read an import or pass the depth check ends
\* at that step with an error, takes no further step and leaves the output
\* file unwritten.
C21_WriteOnlyAfterSuccess == [][C21_Step]_vars

\* a run with -O ended at a -V pattern that does not compile
C21_Witness ==
  /\ pc = "failed"
  /\ err = "ignore pattern"
  /\ env.exclude_vars # <<>>
  /\ lines # <<>>
  /\ outfile = None

\* the line as strip_eol_comment gets it: without leading blanks and without
\* a trailing lone semicolon
BeforeEolComment(line) ==
  ReplaceFirst(RE_TRAILING_SEMI, ReplaceFirst(RE_LEADING_WS, line, <<>>),
               <<TGroup(1)>>)

\* position i of the line holds a # between two whitespace characters that
\* QuoteTracker places outside every quoted string
CommentStart(s, i) ==
  /\ s[i] = "#"
  /\ i > 1 /\ s[i - 1] \in SpaceCh
  /\ i < Len(s) /\ s[i + 1] \in SpaceCh
  /\ line_has_open_quote(SubSeq(s, 1, i - 1)) = <<FALSE, FALSE>>

\* C22: when flatten_line removes an end-of-line comment, the text removed
\* starts at a # that has whitespace before and after it and lies outside
\* every quoted string as QuoteTracker decides quoting.
C22_CommentOutsideQuotes ==
  (pc = "flatten_line" /\ qres.some /\ qres.val # BeforeEolComment(qline)) =>
    \E i \in 1..Len(BeforeEolComment(qline)) :
      /\ CommentStart(BeforeEolComment(qline), i)
      /\ qres.val = TrimEnd(SubSeq(BeforeEolComment(qline), 1, i - 1)) \o << " " >>

\* the lines of ls from line i on that start inside a single- or
\* double-quoted string left open by an earlier line
RECURSIVE QuotedLinesFrom(_, _)
QuotedLinesFrom(ls, i) ==
  IF i > Len(ls) THEN <<>>
  ELSE (IF RefModeAt(ls, i).mode \in {"sq", "dq"} THEN <<ls[i]>> ELSE <<>>)
       \o QuotedLinesFrom(ls, i + 1)

\* C23: every line of the source that starts inside a quoted string opened
\* on an earlier line comes out of Strip and Flatten as it is: Strip removes
\* none of them and Flatten changes none.
C23_QuotedLinesKept ==
  (pc = "join" /\ ~env.do_obfuscate) =>
    IsSubseq(QuotedLinesFrom(Lines(source), 1), lines)

\* the last word of a line, <<>> for a blank line
LastWord(line) ==
  IF split_whitespace(line) = <<>> THEN <<>>
  ELSE split_whitespace(line)[Len(split_whitespace(line))]

\* a line of lower-case words that is no case statement: an ordinary
\* statement wherever it stands among lines of this kind
PlainStatement(line) ==
  /\ LastWord(line) # <<>>
  /\ \A i \in 1..Len(line) : line[i] \in Lower \cup {" "}
  /\ split_whitespace(line)[1] # <<"c","a","s","e">>

\* C24: when Join is given ordinary statement lines, the text it returns
\* holds every line whose last word is not exactly `then`, `do` or `else`
\* followed by `;`: a last word that only ends in those letters does not
\* make the line run into the next statement.
C24_KeywordIsWholeWord ==
  (pc = "write" /\ \A i \in 1..Len(lines) : PlainStatement(lines[i])) =>
    \A i \in 1..Len(lines) :
      LastWord(lines[i]) \notin {<<"t","h","e","n">>, <<"d","o">>, <<"e","l","s","e">>}
        => ContainsStr(result, Trim(lines[i]) \o <<";">>)

\* the step ends the loop of a looped rule
LoopEnds ==
  /\ pc = "obfuscate" /\ pc' = "obfuscate"
  /\ ob.line <= Len(lines) /\ ob.var <= Len(sorted_vars)
  /\ ob.rule <= Len(Patterns)
  /\ Patterns[ob.rule].looped
  /\ ob'.rule = ob.rule + 1

\* C25: when the loop of a looped rule ends, the line is a fixed point of
\* the rule: one more replacement would not change it, however many
\* occurrences of the variable the line has.
C25_LoopEndsAtFixedPoint ==
  [][LoopEnds =>
       VmReplace(Patterns[ob.rule].re, ob'.s, Patterns[ob.rule].tpl) = ob'.s]_vars

\* the loop variables of brace_depth_delta after the first n characters
BraceAt(line, n) ==
  FoldChars(BraceStep, line, 1, n,
            [delta |-> 0, param_depth |-> 0,
             in_single |-> FALSE, in_double |-> FALSE])

\* One character of a reading of the line as the shell reads it: opens holds,
\* for every ${ not closed yet, whether it was opened inside double quotes;
\* a } closes the innermost ${ when it is not escaped and not inside a
\* quoted string opened after that ${.  exempt collects the positions of the
\* braces that lie inside a quoted string or belong to a ${...} expansion.
ShellBraceStep(st, chars, i) ==
  LET ch == chars[i]
      prev == IF i > 1 THEN chars[i - 1] ELSE ""
      escaped == ~st.in_single /\ BackslashesBefore(chars, i) % 2 = 1
      Exempt(s) == [s EXCEPT !.exempt = s.exempt \cup {i}]
  IN  IF ch = SQ /\ ~st.in_double /\ (st.in_single \/ ~escaped)
      THEN [st EXCEPT !.in_single = ~st.in_single]
      ELSE IF ch = DQ /\ ~st.in_single /\ ~escaped
      THEN [st EXCEPT !.in_double = ~st.in_double]
      ELSE IF ch = "{" /\ prev = "$" /\ ~st.in_single
      THEN Exempt([st EXCEPT !.opens = Append(st.opens, st.in_double)])
      ELSE IF ch = "{" /\ (st.in_single \/ st.in_double \/ st.opens # <<>>)
      THEN Exempt(st)
      ELSE IF ch = "}" /\ st.opens # <<>> /\ ~st.in_single
      THEN IF ~escaped /\ st.in_double = st.opens[Len(st.opens)]
           THEN Exempt([st EXCEPT
                          !.opens = SubSeq(st.opens, 1, Len(st.opens) - 1)])
           ELSE Exempt(st)
      ELSE IF ch = "}" /\ (st.in_single \/ st.in_double)
      THEN Exempt(st)
      ELSE st

ExemptBraces(line) ==
  FoldChars(ShellBraceStep, line, 1, Len(line),
            [in_single |-> FALSE, in_double |-> FALSE, opens |-> <<>>,
             exempt |-> {}]).exempt

\* C26: at every line Bundle scans, the brace depth is not negative, and no
\* brace of the line that lies inside a quoted string or belongs to a ${...}
\* expansion changes the depth counted for the line.
C26_BraceDepth ==
  Scanning =>
    /\ Top.brace_depth >= 0
    /\ \A i \in ExemptBraces(CurLine) :
         BraceAt(CurLine, i).delta = BraceAt(CurLine, i - 1).delta

\* The positions of the lines of ls, from line i on, that a phase's loop
\* meets with heredoc_delim set, when Start(l) is the delimiter line l sets
\* it to: the state ends after the line whose trimmed text is the delimiter.
RECURSIVE HeredocStateFrom(_, _, _, _)
HeredocStateFrom(Start(_), ls, i, delim) ==
  IF i > Len(ls) THEN {}
  ELSE IF delim.some
  THEN {i} \cup HeredocStateFrom(Start, ls, i + 1,
                                 IF Trim(ls[i]) = delim.val THEN None
                                 ELSE delim)
  ELSE HeredocStateFrom(Start, ls, i + 1, Start(ls[i]))

\* C27: on the lines Strip hands to Flatten, the loops of Strip, Flatten and
\* Join are in heredoc state at exactly the same lines; a `<<WORD` inside a
\* quoted string opens that state in none of them.
C27_SameHeredocLines ==
  pc = "flatten" =>
    /\ HeredocStateFrom(StripHeredocStart, lines, 1, None)
         = HeredocStateFrom(FlattenHeredocStart, lines, 1, None)
    /\ HeredocStateFrom(StripHeredocStart, lines, 1, None)
         = HeredocStateFrom(JoinHeredocStart, lines, 1, None)

\* every identifier of every line of ls stands somewhere in the text out
WordsKept(ls, out) ==
  \A i \in 1..Len(ls) :
    \A k \in 1..Len(IdentWords(ls[i])) : ContainsStr(out, IdentWords(ls[i])[k])

\* C28: Join discards no statement: every word of every line it is given
\* stands in the text it returns, also for a line inside a `case` block that
\* is neither a pattern nor `esac` and for the lines after a one-line
\* `case ... esac`.
C28_JoinKeepsEveryLine ==
  pc = "write" => WordsKept(lines, result)

\* the `<<` at position i of the line is part of a here-string `<<<`, or
\* stands between `((` and `))`
ShiftOrHereString(line, i) ==
  \/ i + 2 <= Len(line) /\ line[i + 2] = "<"
  \/ i > 1 /\ line[i - 1] = "<"
  \/ /\ ContainsStr(SubSeq(line, 1, i - 1), <<"(", "(">>)
     /\ ContainsStr(SubSeq(line, i + 2, Len(line)), <<")", ")">>)

\* the line has a `<<`, and each one is a here-string or a left shift
OnlyShiftsAndHereStrings(line) ==
  /\ ContainsStr(line, <<"<", "<">>)
  /\ \A i \in 1..(Len(line) - 1) :
       (line[i] = "<" /\ line[i + 1] = "<") => ShiftOrHereString(line, i)

\* C29: a line of the source whose `<<` are all here-strings or arithmetic
\* left shifts opens heredoc state in none of Strip, Flatten and Join.
C29_OnlyRedirectionOpensHeredoc ==
  pc = "strip" =>
    \A i \in 1..Len(Lines(source)) :
      OnlyShiftsAndHereStrings(Lines(source)[i]) =>
        /\ ~StripHeredocStart(Lines(source)[i]).some
        /\ ~FlattenHeredocStart(Lines(source)[i]).some
        /\ ~JoinHeredocStart(Lines(source)[i]).some

\* the file being scanned was inlined, directly or through other files, by
\* a directive that stands inside a function body
InlinedInsideBody ==
  \E k \in 1..(Len(stack) - 1) : stack[k].brace_depth > 0

\* C30: a directive of a file that was inlined from inside a function body
\* is never skipped as already visited, at the top level of that file
\* included.
C30_ScopedImportIsTransitive ==
  (AtDirective /\ InlinedInsideBody) =>
    ~ShouldDedup(Top.brace_depth, Top.force_next, canonicalize(Resolved.val))

====
